---- MODULE Spec2Model ----
(***************************************************************************)
(* A model of the numerical utilities of epstan/util.py.                   *)
(*                                                                         *)
(*   Spec     distribute_groups(J, K, Nj), one action per loop iteration.  *)
(*   SpecInv  invert_normal_params(A, b, out_A, out_b, cho_form), one      *)
(*            action per LAPACK call, applied once and then once more to   *)
(*            its own result.                                              *)
(*                                                                         *)
(* Each specification runs one of the two functions; the variables of the  *)
(* other one stay at their idle values.                                    *)
(*                                                                         *)
(* Python sequences are 0-based; the sequences below are 1-based, so the   *)
(* element the code calls s[i] is s[i+1] here.  Every operator that takes  *)
(* an index takes the code's 0-based index.                                *)
(***************************************************************************)
EXTENDS Integers, Sequences, FiniteSets, TLC

\* Bounds of the explored inputs of distribute_groups.
MaxJ == 4
MaxSize == 4
MaxK == 6

VARIABLES
    pc,         \* position in distribute_groups
    J, K,       \* arguments J and K
    NjArg,      \* argument Nj as passed: an int or an array
    Nj,         \* Nj after line 572 (array of group sizes)
    N,          \* Nj.sum()
    j_lim,      \* concatenate(([0], cumsum(Nj)))
    Nk,         \* samples per site (a list while merging, an array after)
    Njd,        \* sums of adjacent pairs of Nk
    Nj_k,       \* groups per site
    it,         \* iterations done of the loop of line 589 or of line 620
    j_ind_k,    \* within site group index
    k_lim,      \* concatenate(([0], cumsum(Nj_k)))
    k, ji,      \* loop variables of lines 604-605 (k also of line 628)
    ppg,        \* parts per group
    Nj2,        \* lines 619-623: ratios <<num, den>>; after line 624: ints
    rem,        \* Nj % ppg
    j, kj,      \* loop variables of lines 629-630
    ret,        \* the returned triple
    err         \* message of the raised ValueError, "" if none

dgvars == <<pc, J, K, NjArg, Nj, N, j_lim, Nk, Njd, Nj_k, it, j_ind_k, k_lim,
            k, ji, ppg, Nj2, rem, j, kj, ret, err>>

VARIABLES
    ipc,        \* position in invert_normal_params
    A, b,       \* the caller's arrays A and b (b may be None)
    argOutA,    \* argument out_A: "None", "in-place" or "array"
    argOutB,    \* argument out_b: "None", "in-place" or "array"
    cho_form,   \* argument cho_form
    layout,     \* memory layout of the array out_A names after lines 89-94
    out_A,      \* the array the function works in (None before line 89)
    out_b,      \* the vector the function works in, or None
    info,       \* status of the last LAPACK call
    iret,       \* the returned pair, None before the return
    ierr,       \* name of the raised exception, "" if none
    calls,      \* number of calls started
    orig        \* the arguments A, b and cho_form of the first call

invvars == <<ipc, A, b, argOutA, argOutB, cho_form, layout, out_A, out_b,
             info, iret, ierr, calls, orig>>

\* olse: the arguments S (the caller's array), n, P and out (None, 'in-place'
\* or an array, with the memory layout of the array that is out), the local
\* out, tr, tr2 and f2, the returned matrix or the exception raised, and the
\* arguments as they were at the call.
VARIABLES
    olse_pc,
    olse_S,
    olse_n,
    olse_P,
    olse_argOut,
    olse_layout,
    olse_out,
    olse_tr,
    olse_tr2,
    olse_f2,
    olse_ret,
    olse_err,
    olse_orig

olsevars == <<olse_pc, olse_S, olse_n, olse_P, olse_argOut, olse_layout,
              olse_out, olse_tr, olse_tr2, olse_f2, olse_ret, olse_err,
              olse_orig>>

\* cv_moments: the caller's arrays samp, Q_tilde and r_tilde and the optional
\* S_tilde and m_tilde as passed (cv_argS_tilde, cv_argm_tilde); cv_pr is the
\* probability ratio exp(lp_tilde - lp) of each sample, which stands for the
\* argument lp; the dict opt, ret_a and m_treshold; the locals S_tilde, m_tilde, a_m and a_S; the
\* output arrays S_hat and m_hat; the returned tuple or the exception
\* raised; and the arguments as they were at the call.
VARIABLES
    cv_pc,
    cv_samp,
    cv_pr,
    cv_Q_tilde,
    cv_r_tilde,
    cv_argS_tilde,
    cv_argm_tilde,
    cv_opt,
    cv_ret_a,
    cv_m_treshold,
    cv_S_tilde,
    cv_m_tilde,
    cv_a_m,
    cv_a_S,
    cv_S_hat,
    cv_m_hat,
    cv_ret,
    cv_err,
    cv_orig

cvvars == <<cv_pc, cv_samp, cv_pr, cv_Q_tilde, cv_r_tilde, cv_argS_tilde,
            cv_argm_tilde, cv_opt, cv_ret_a, cv_m_treshold, cv_S_tilde, cv_m_tilde,
            cv_a_m, cv_a_S, cv_S_hat, cv_m_hat, cv_ret, cv_err, cv_orig>>

\* load_stan: the files on disk (a model, or None for a missing file), the
\* arguments filename and overwrite, the local filename with its ending
\* removed, the model returned or the exception raised, whether StanModel was
\* called, the number of calls made, and the files as they were at the call.
VARIABLES
    ls_pc,
    ls_files,
    ls_arg,
    ls_overwrite,
    ls_filename,
    ls_sm,
    ls_err,
    ls_compiled,
    ls_calls,
    ls_before

lsvars == <<ls_pc, ls_files, ls_arg, ls_overwrite, ls_filename, ls_sm, ls_err,
            ls_compiled, ls_calls, ls_before>>

\* copy_fit_samples: the fit (number of chains, draws per chain, warm-up
\* draws, dimensions of the parameter), the argument out, the output array,
\* the position in the loops over parameter elements and chains, the number
\* of np.copyto calls made, the value returned and the exception raised.
VARIABLES
    cf_pc,
    cf_nchains,
    cf_niter,
    cf_warmup,
    cf_dims,
    cf_argOut,
    cf_out,
    cf_e,
    cf_c,
    cf_copied,
    cf_ret,
    cf_err

cfvars == <<cf_pc, cf_nchains, cf_niter, cf_warmup, cf_dims, cf_argOut, cf_out,
            cf_e, cf_c, cf_copied, cf_ret, cf_err>>

\* redirect_stdout_stderr_deep: the file descriptor table of the process,
\* the arguments file_out and file_err (the descriptor of the file, or None),
\* the locals fd_out, fd_err, orig_stdout_dup and orig_stderr_dup, the
\* exception that left the with-statement, the number of uses so far, and
\* the descriptor table as it was when the with-statement was entered.
VARIABLES
    rd_pc,
    rd_fds,
    rd_file_out,
    rd_file_err,
    rd_fd_out,
    rd_fd_err,
    rd_orig_stdout_dup,
    rd_orig_stderr_dup,
    rd_err,
    rd_uses,
    rd_before

rdvars == <<rd_pc, rd_fds, rd_file_out, rd_file_err, rd_fd_out, rd_fd_err,
            rd_orig_stdout_dup, rd_orig_stderr_dup, rd_err, rd_uses, rd_before>>

\* stan_sample_subprocess: the position of the parent, the position of
\* the child process running _stan_sample_subprocess_routine, whether the
\* model file exists, the argument pars and the child's sequence of
\* parameter names, the sampling time of the fit, the samples extracted so
\* far, the tuple the child has computed, the queue, the child's exit code,
\* what the parent returned, and the number of calls made.
VARIABLES
    sp_pc,
    sp_child,
    sp_model,
    sp_parsArg,
    sp_pars,
    sp_time,
    sp_samples,
    sp_result,
    sp_queue,
    sp_exitcode,
    sp_ret,
    sp_calls

spvars == <<sp_pc, sp_child, sp_model, sp_parsArg, sp_pars, sp_time, sp_samples,
            sp_result, sp_queue, sp_exitcode, sp_ret, sp_calls>>

\* The state of the functions added after cv_moments.
extvars == <<lsvars, cfvars, rdvars, spvars>>

vars == <<dgvars, invvars, olsevars, cvvars, extvars>>

----------------------------------------------------------------------------
\* Helpers for Python/numpy values.

\* Python None and a present value, as sequences of length 0 and 1.
None == <<>>
Some(x) == <<x>>

\* s[i] for the code's 0-based i.
At(s, i) == s[i + 1]

\* list.pop(i): the list without its element of 0-based index i.
Pop(s, i) == [n \in 1..(Len(s) - 1) |-> IF n <= i THEN s[n] ELSE s[n + 1]]

\* s with the element of 0-based index i replaced by v.
Put(s, i, v) == [s EXCEPT ![i + 1] = v]

RECURSIVE SeqSum(_)
SeqSum(s) == IF Len(s) = 0 THEN 0 ELSE s[Len(s)] + SeqSum(SubSeq(s, 1, Len(s) - 1))

\* np.concatenate(([0], np.cumsum(s)))
CumSum0(s) == [n \in 1..(Len(s) + 1) |-> SeqSum(SubSeq(s, 1, n - 1))]

\* min(s) of a non-empty list.
ListMin(s) == CHOOSE m \in {s[n] : n \in 1..Len(s)} : \A n \in 1..Len(s) : m <= s[n]

\* s.index(v): 0-based position of the first occurrence of v.
ListIndex(s, v) == (CHOOSE n \in 1..Len(s) : s[n] = v /\ \A p \in 1..(n - 1) : s[p] # v) - 1

Abs(x) == IF x < 0 THEN -x ELSE x

\* The values an np.empty array may hold before it is written.
EmptyVals == {0, -1}

----------------------------------------------------------------------------
\* distribute_groups: argument checks and branch selection.

\* The arguments the model explores.
NjArrays == UNION {[1..n -> 0..MaxSize] : n \in 0..MaxJ}
NjInts == -1..MaxSize
NjArgs == {[isint |-> FALSE, n |-> 0, a |-> a] : a \in NjArrays}
          \cup {[isint |-> TRUE, n |-> n, a |-> <<>>] : n \in NjInts}

\* Lines 571-572: an int Nj stands for J groups of that size.
NjArray(J0, arg) == IF arg.isint THEN [n \in 1..J0 |-> arg.n] ELSE arg.a

\* Lines 573-576: the ValueError raised on the array, "" if none.
ArgError(J0, arg) ==
    IF ~arg.isint /\ Len(arg.a) # J0 THEN "Invalid shape of arg. Nj."
    ELSE IF \E n \in 1..Len(NjArray(J0, arg)) : NjArray(J0, arg)[n] <= 0
         THEN "Every group must have at least one item"
         ELSE ""

\* Mutant of Branch: the merge branch is entered with K <= J.
Branch_LeJ(J0, K0, N0) ==
    IF K0 < 2 THEN "K should be at least 2."
    ELSE IF K0 <= J0 THEN "merge"
    ELSE IF K0 <= N0 THEN "split"
    ELSE "K cant be greater than number of samples"

\* Mutant of Branch: the lower limit of K is checked as K < 1.
Branch_KLt1(J0, K0, N0) ==
    IF K0 < 1 THEN "K should be at least 2."
    ELSE IF K0 < J0 THEN "merge"
    ELSE IF K0 = J0 THEN "identity"
    ELSE IF K0 <= N0 THEN "split"
    ELSE "K cant be greater than number of samples"

\* Lines 579-639: the branch of the if/elif chain that is taken.
Branch(J0, K0, N0) ==
    IF K0 < 2 THEN "K should be at least 2."
    ELSE IF K0 < J0 THEN "merge"
    ELSE IF K0 = J0 THEN "identity"
    ELSE IF K0 <= N0 THEN "split"
    ELSE "K cant be greater than number of samples"

NoRet == [Nk |-> <<>>, second |-> None, j_ind_k |-> None]

\* Lines 585-588: the lists the merge loop starts from.
PairSums(s) == [n \in 1..(Len(s) - 1) |-> s[n] + s[n + 1]]
Ones(n0) == [n \in 1..n0 |-> 1]

\* Line 613: K == J, one group per site.
IdentityRet(a) == [Nk |-> a, second |-> None, j_ind_k |-> None]

\* Lines 571-588, 610-619, 638-639: everything up to the first loop.
CheckArgs ==
    /\ pc = "check"
    /\ LET e == ArgError(J, NjArg)
           a == NjArray(J, NjArg)
           n == SeqSum(a)
           br == IF e # "" THEN e ELSE Branch(J, K, n)
       IN /\ pc' = IF br \in {"merge", "split"} THEN br ELSE "done"
          /\ err' = IF br \in {"merge", "identity", "split"} THEN "" ELSE br
          /\ Nj' = a
          /\ N' = IF e = "" THEN n ELSE N
          /\ j_lim' = IF br = "merge" THEN CumSum0(a) ELSE j_lim
          /\ Nk' = IF br = "merge" THEN a ELSE Nk
          /\ Njd' = IF br = "merge" THEN PairSums(a) ELSE Njd
          /\ Nj_k' = IF br = "merge" THEN Ones(J) ELSE Nj_k
          /\ ppg' = IF br = "split" THEN Ones(J) ELSE ppg
          /\ Nj2' = IF br = "split" THEN [m \in 1..J |-> <<a[m], 1>>] ELSE Nj2
          /\ ret' = IF br = "identity" THEN IdentityRet(a) ELSE ret
    /\ UNCHANGED <<extvars, invvars, olsevars, cvvars, J, K, NjArg, it, j_ind_k, k_lim, k, ji, rem, j, kj>>

----------------------------------------------------------------------------
\* distribute_groups, K < J: many groups per site.

\* Line 590: ind = Njd.index(min(Njd))
MergeInd(njd) == ListIndex(njd, ListMin(njd))

\* Mutant of NjdNeighbours: the pair sum to the left is not updated.
NjdNeighbours_NoLeft(njd, nk, ind) ==
    IF ind + 1 < Len(njd)
    THEN Put(njd, ind + 1, At(njd, ind + 1) + At(nk, ind))
    ELSE njd

\* Mutant of NjdNeighbours: the pair sum to the right is not updated.
NjdNeighbours_NoRight(njd, nk, ind) ==
    IF ind > 0
    THEN Put(njd, ind - 1, At(njd, ind - 1) + At(nk, ind + 1))
    ELSE njd

\* Lines 591-594: the pair sums next to the merged pair take the other half.
NjdNeighbours(njd, nk, ind) ==
    LET a1 == IF ind + 1 < Len(njd)
              THEN Put(njd, ind + 1, At(njd, ind + 1) + At(nk, ind))
              ELSE njd
    IN IF ind > 0
       THEN Put(a1, ind - 1, At(a1, ind - 1) + At(nk, ind + 1))
       ELSE a1

\* Mutant of MergeNk: Nk.pop(ind) removes the merged site itself.
MergeNk_PopInd(nk, njd, ind) == Pop(Put(nk, ind, At(njd, ind)), ind)

\* Lines 595-596: the merged site replaces the pair.
MergeNk(nk, njd, ind) == Pop(Put(nk, ind, At(njd, ind)), ind + 1)

\* Mutant of MergeNj_k: the right neighbour is counted as a single group.
MergeNj_k_AddOne(njk, ind) == Pop(Put(njk, ind, At(njk, ind) + 1), ind + 1)

\* Lines 598-599: the merged site holds the groups of both.
MergeNj_k(njk, ind) == Pop(Put(njk, ind, At(njk, ind) + At(njk, ind + 1)), ind + 1)

\* Lines 589-599: one iteration of the merge loop.
MergeStep ==
    /\ pc = "merge"
    /\ it < J - K
    /\ LET ind == MergeInd(Njd)
           njd1 == NjdNeighbours(Njd, Nk, ind)
       IN /\ Nk' = MergeNk(Nk, njd1, ind)
          /\ Njd' = Pop(njd1, ind)
          /\ Nj_k' = MergeNj_k(Nj_k, ind)
    /\ it' = it + 1
    /\ UNCHANGED <<extvars, invvars, olsevars, cvvars, pc, J, K, NjArg, Nj, N, j_lim, j_ind_k, k_lim, k, ji, ppg,
                   Nj2, rem, j, kj, ret, err>>

\* Lines 600-604: the loop is over; allocate the index and start filling it.
MergeDone ==
    /\ pc = "merge"
    /\ it >= J - K
    /\ \E g \in EmptyVals : j_ind_k' = [n \in 1..N |-> g]
    /\ k_lim' = CumSum0(Nj_k)
    /\ k' = 0
    /\ ji' = 0
    /\ pc' = "index"
    /\ UNCHANGED <<extvars, invvars, olsevars, cvvars, J, K, NjArg, Nj, N, j_lim, Nk, Njd, Nj_k, it, ppg, Nj2, rem,
                   j, kj, ret, err>>

\* arr[lo:hi] = v
SliceAssign(arr, lo, hi, v) ==
    [n \in 1..Len(arr) |-> IF lo < n /\ n <= hi THEN v ELSE arr[n]]

\* Mutant of IndexBody: ki = ji + k, the site number instead of k_lim[k].
IndexBody_KiFromK(jind, jlim, klim, k0, ji0) ==
    LET ki == ji0 + k0
    IN SliceAssign(jind, At(jlim, ki), At(jlim, ki + 1), ji0)

\* Lines 606-607: the samples of group ki = ji + k_lim[k] get index ji.
IndexBody(jind, jlim, klim, k0, ji0) ==
    LET ki == ji0 + At(klim, k0)
    IN SliceAssign(jind, At(jlim, ki), At(jlim, ki + 1), ji0)

\* Lines 605-607: one iteration of the inner loop.
IndexStep ==
    /\ pc = "index"
    /\ k < K
    /\ ji < At(Nj_k, k)
    /\ j_ind_k' = IndexBody(j_ind_k, j_lim, k_lim, k, ji)
    /\ ji' = ji + 1
    /\ UNCHANGED <<extvars, invvars, olsevars, cvvars, pc, J, K, NjArg, Nj, N, j_lim, Nk, Njd, Nj_k, it, k_lim, k,
                   ppg, Nj2, rem, j, kj, ret, err>>

\* Line 604: the inner loop is over, next site.
IndexNext ==
    /\ pc = "index"
    /\ k < K
    /\ ji >= At(Nj_k, k)
    /\ k' = k + 1
    /\ ji' = 0
    /\ UNCHANGED <<extvars, invvars, olsevars, cvvars, pc, J, K, NjArg, Nj, N, j_lim, Nk, Njd, Nj_k, it, j_ind_k,
                   k_lim, ppg, Nj2, rem, j, kj, ret, err>>

\* Line 608: return Nk, Nj_k, j_ind_k
MergeReturn ==
    /\ pc = "index"
    /\ k >= K
    /\ ret' = [Nk |-> Nk, second |-> Some(Nj_k), j_ind_k |-> Some(j_ind_k)]
    /\ pc' = "done"
    /\ UNCHANGED <<extvars, invvars, olsevars, cvvars, J, K, NjArg, Nj, N, j_lim, Nk, Njd, Nj_k, it, j_ind_k, k_lim,
                   k, ji, ppg, Nj2, rem, j, kj, err>>

----------------------------------------------------------------------------
\* distribute_groups, J < K <= N: many sites per group.

\* Ratios size/parts are pairs <<num, den>> with den > 0, compared exactly.
RatioGt(x, y) == x[1] * y[2] > y[1] * x[2]

\* Mutant of ArgMax: the first group is always chosen.
ArgMax_First(s) == 0

\* Mutant of ArgMax: the group of the largest original size is chosen,
\* whatever its number of parts.
ArgMax_LargestSize(s) ==
    (CHOOSE n \in 1..Len(s) :
        /\ \A p \in 1..Len(s) : s[p][1] <= s[n][1]
        /\ \A p \in 1..(n - 1) : s[p][1] < s[n][1]) - 1

\* Line 621: Nj2.argmax(), the first of the largest entries.
ArgMax(s) ==
    (CHOOSE n \in 1..Len(s) :
        /\ \A p \in 1..Len(s) : ~RatioGt(s[p], s[n])
        /\ \A p \in 1..(n - 1) : RatioGt(s[n], s[p])) - 1

\* Line 622: ppg[cur_max] += 1
AddPart(p, cur_max) == Put(p, cur_max, At(p, cur_max) + 1)

\* Mutant of NewRatio: Nj2[cur_max] /= ppg[cur_max], the current ratio is
\* divided instead of the original size.
NewRatio_FromCurrent(nj, p, r, cur_max) ==
    Put(r, cur_max, <<At(r, cur_max)[1], At(r, cur_max)[2] * At(p, cur_max)>>)

\* Line 623: Nj2[cur_max] = Nj[cur_max]/ppg[cur_max]
NewRatio(nj, p, r, cur_max) == Put(r, cur_max, <<At(nj, cur_max), At(p, cur_max)>>)

\* Lines 620-623: one iteration of the split loop.
SplitStep ==
    /\ pc = "split"
    /\ it < K - J
    /\ LET cur_max == ArgMax(Nj2)
           p == AddPart(ppg, cur_max)
       IN /\ ppg' = p
          /\ Nj2' = NewRatio(Nj, p, Nj2, cur_max)
    /\ it' = it + 1
    /\ UNCHANGED <<extvars, invvars, olsevars, cvvars, pc, J, K, NjArg, Nj, N, j_lim, Nk, Njd, Nj_k, j_ind_k, k_lim,
                   k, ji, rem, j, kj, ret, err>>

\* Lines 624-629: the loop is over; base sizes, remainders, a new Nk.
SplitDone ==
    /\ pc = "split"
    /\ it >= K - J
    /\ Nj2' = [n \in 1..J |-> Nj[n] \div ppg[n]]
    /\ rem' = [n \in 1..J |-> Nj[n] % ppg[n]]
    /\ \E g \in EmptyVals : Nk' = [n \in 1..K |-> g]
    /\ k' = 0
    /\ j' = 0
    /\ kj' = 0
    /\ pc' = "form"
    /\ UNCHANGED <<extvars, invvars, olsevars, cvvars, J, K, NjArg, Nj, N, j_lim, Njd, Nj_k, it, j_ind_k, k_lim, ji,
                   ppg, ret, err>>

\* Mutant of SiteSize: every part but the last holds ceil(size/parts)
\* samples and the last part holds what is left.
SiteSize_Ceil(base, r, j0, kj0) ==
    LET size == At(Nj, j0)
        parts == At(ppg, j0)
        c == (size + parts - 1) \div parts
    IN IF kj0 < parts - 1 THEN c ELSE size - c * (parts - 1)

\* Mutant of SiteSize: kj <= rem[j], one part too many gets an extra sample.
SiteSize_OffByOne(base, r, j0, kj0) ==
    IF kj0 <= At(r, j0) THEN At(base, j0) + 1 ELSE At(base, j0)

\* Lines 631-634: the size of part kj of group j0.
SiteSize(base, r, j0, kj0) ==
    IF kj0 < At(r, j0) THEN At(base, j0) + 1 ELSE At(base, j0)

\* Lines 630-635: one iteration of the inner loop.
FormStep ==
    /\ pc = "form"
    /\ j < J
    /\ kj < At(ppg, j)
    /\ Nk' = Put(Nk, k, SiteSize(Nj2, rem, j, kj))
    /\ k' = k + 1
    /\ kj' = kj + 1
    /\ UNCHANGED <<extvars, invvars, olsevars, cvvars, pc, J, K, NjArg, Nj, N, j_lim, Njd, Nj_k, it, j_ind_k, k_lim,
                   ji, ppg, Nj2, rem, j, ret, err>>

\* Line 629: the inner loop is over, next group.
FormNext ==
    /\ pc = "form"
    /\ j < J
    /\ kj >= At(ppg, j)
    /\ j' = j + 1
    /\ kj' = 0
    /\ UNCHANGED <<extvars, invvars, olsevars, cvvars, pc, J, K, NjArg, Nj, N, j_lim, Nk, Njd, Nj_k, it, j_ind_k,
                   k_lim, k, ji, ppg, Nj2, rem, ret, err>>

\* Line 636: return Nk, ppg, None
SplitReturn ==
    /\ pc = "form"
    /\ j >= J
    /\ ret' = [Nk |-> Nk, second |-> Some(ppg), j_ind_k |-> None]
    /\ pc' = "done"
    /\ UNCHANGED <<extvars, invvars, olsevars, cvvars, J, K, NjArg, Nj, N, j_lim, Nk, Njd, Nj_k, it, j_ind_k, k_lim,
                   k, ji, ppg, Nj2, rem, j, kj, err>>

----------------------------------------------------------------------------
\* Exact arithmetic for invert_normal_params.  A float is modelled by the
\* rational <<num, den>> it stands for, in lowest terms with den > 0; NaN
\* stands for every non-finite result (a division by zero and what follows
\* from it).  The explored matrices have rational Cholesky factors, so every
\* square root that is taken is exact.

\* Bounds of the explored inputs of invert_normal_params.
MaxDiag == 2
MaxVec == 1

NaN == <<0, 0>>
IsNaN(x) == x[2] = 0

Sign(n) == IF n > 0 THEN 1 ELSE IF n < 0 THEN -1 ELSE 0

RECURSIVE Gcd(_, _)
Gcd(x, y) == IF y = 0 THEN x ELSE Gcd(y, x % y)

Rat(n, d) ==
    IF d = 0 THEN NaN
    ELSE LET g == Gcd(Abs(n), Abs(d))
         IN <<(Sign(d) * n) \div g, Abs(d) \div g>>

Zero == Rat(0, 1)
One == Rat(1, 1)

\* Common factors are divided out before the products are taken, to keep
\* the intermediate integers small; the values are those of the fractions.
RAdd(x, y) ==
    IF IsNaN(x) \/ IsNaN(y) THEN NaN
    ELSE LET g == Gcd(x[2], y[2])
         IN Rat(x[1] * (y[2] \div g) + y[1] * (x[2] \div g), (x[2] \div g) * y[2])
RSub(x, y) == RAdd(x, <<-y[1], y[2]>>)
RMul(x, y) ==
    IF IsNaN(x) \/ IsNaN(y) THEN NaN
    ELSE LET g1 == Gcd(Abs(x[1]), y[2])
             g2 == Gcd(Abs(y[1]), x[2])
         IN Rat((x[1] \div g1) * (y[1] \div g2), (x[2] \div g2) * (y[2] \div g1))
RDiv(x, y) ==
    IF IsNaN(x) \/ IsNaN(y) \/ y[1] = 0 THEN NaN
    ELSE RMul(x, <<Sign(y[1]) * y[2], Abs(y[1])>>)
RPos(x) == ~IsNaN(x) /\ x[1] > 0

\* The square root of a rational square.
ISqrt(n) == CHOOSE r \in 0..n : r * r = n
RSqrt(x) == Rat(ISqrt(x[1]), ISqrt(x[2]))

RECURSIVE RSum(_)
RSum(s) == IF Len(s) = 0 THEN Zero ELSE RAdd(s[Len(s)], RSum(SubSeq(s, 1, Len(s) - 1)))

\* Matrices are sequences of rows.
Dim(M) == Len(M)

\* M.T
Transpose(M) == [i \in 1..Dim(M) |-> [c \in 1..Dim(M) |-> M[c][i]]]

\* LAPACK potrf, upper triangle, after the rows 1..r: row i of the factor U
\* with U^T U = M is written over row i of the upper triangle; the strictly
\* lower triangle is not touched.  info = r when pivot r is not positive.
RECURSIVE Potrf(_, _)
Potrf(M, r) ==
    IF r = 0 THEN [a |-> M, info |-> 0]
    ELSE LET prev == Potrf(M, r - 1)
             U == prev.a
             ajj == RSub(U[r][r], RSum([n \in 1..(r - 1) |-> RMul(U[n][r], U[n][r])]))
         IN IF prev.info # 0 THEN prev
            ELSE IF ~RPos(ajj) THEN [a |-> [U EXCEPT ![r][r] = ajj], info |-> r]
            ELSE [a |-> [i \in 1..Dim(M) |-> [c \in 1..Dim(M) |->
                          IF i = r /\ c = r THEN RSqrt(ajj)
                          ELSE IF i = r /\ c > r
                          THEN RDiv(RSub(U[r][c],
                                         RSum([n \in 1..(r - 1) |-> RMul(U[n][r], U[n][c])])),
                                    RSqrt(ajj))
                          ELSE U[i][c]]],
                  info |-> 0]

\* Line 112: linalg.cho_factor(out_A, overwrite_a=True)
ChoFactor(M) == Potrf(M, Dim(M))

\* Entry i of the solution y of U^T y = v (forward substitution).
RECURSIVE FwdSolve(_, _, _)
FwdSolve(U, v, i) ==
    RDiv(RSub(v[i], RSum([n \in 1..(i - 1) |-> RMul(U[n][i], FwdSolve(U, v, n))])),
         U[i][i])

\* Entry i of the solution x of U x = y (back substitution).
RECURSIVE BackSolve(_, _, _)
BackSolve(U, y, i) ==
    RDiv(RSub(y[i], RSum([n \in 1..(Len(y) - i) |->
                            RMul(U[i][i + n], BackSolve(U, y, i + n))])),
         U[i][i])

\* Mutant of ChoSolve: only the first triangular system is solved.
ChoSolve_ForwardOnly(U, v) == [i \in 1..Len(v) |-> FwdSolve(U, v, i)]

\* Line 117: linalg.cho_solve((U, False), v, overwrite_b=True): the solution
\* of U^T U x = v, read from the upper triangle of U.
ChoSolve(U, v) ==
    LET y == [i \in 1..Len(v) |-> FwdSolve(U, v, i)]
    IN [i \in 1..Len(v) |-> BackSolve(U, y, i)]

\* Entry (i, c) of the inverse of the upper triangle of U.
RECURSIVE TriInv(_, _, _)
TriInv(U, i, c) ==
    IF i > c THEN Zero
    ELSE IF i = c THEN RDiv(One, U[i][i])
    ELSE RDiv(RSub(Zero, RSum([n \in 1..(c - i) |->
                                 RMul(TriInv(U, i, i + n - 1), U[i + n - 1][c])])),
              U[c][c])

\* Mutant of Potri: the status of the routine is lost, a singular factor is
\* inverted like any other.
Potri_NoInfo(U) ==
    [a |-> [i \in 1..Dim(U) |-> [c \in 1..Dim(U) |->
             IF i <= c
             THEN RSum([n \in 1..(Dim(U) - c + 1) |->
                          RMul(TriInv(U, i, c + n - 1), TriInv(U, c, c + n - 1))])
             ELSE U[i][c]]],
     info |-> 0]

\* Line 118: dpotri(out_A, overwrite_c=True): the upper triangle of
\* (U^T U)^-1 is written over the upper triangle of U, the strictly lower
\* triangle is not touched; info = i when U[i][i] is zero.
Potri(U) ==
    LET zeros == {i \in 1..Dim(U) : U[i][i] = Zero}
    IN IF zeros # {}
       THEN [a |-> U, info |-> CHOOSE i \in zeros : \A z \in zeros : i <= z]
       ELSE [a |-> [i \in 1..Dim(U) |-> [c \in 1..Dim(U) |->
                     IF i <= c
                     THEN RSum([n \in 1..(Dim(U) - c + 1) |->
                                  RMul(TriInv(U, i, c + n - 1), TriInv(U, c, c + n - 1))])
                     ELSE U[i][c]]],
             info |-> 0]

\* Line 124: copy_triu_to_tril(out_A)
CopyTriuToTril(M) ==
    [i \in 1..Dim(M) |-> [c \in 1..Dim(M) |-> IF i > c THEN M[c][i] ELSE M[i][c]]]

----------------------------------------------------------------------------
\* invert_normal_params.

\* Mutant of CallerA: out_A = A also when out_A is None or an array, no copy
\* is made.
CallerA_Always(M) == IF layout = "C" THEN Transpose(M) ELSE M

\* The caller's A after a write of M to out_A: the same array when out_A is
\* 'in-place' (seen through the transposing view of line 97 when A is in
\* C-order), untouched otherwise.
CallerA(M) ==
    IF argOutA = "in-place"
    THEN (IF layout = "C" THEN Transpose(M) ELSE M)
    ELSE A

\* The caller's b after a write of v to out_b.
CallerB(v) == IF argOutB = "in-place" /\ b # None THEN Some(v) ELSE b

\* The array the caller passed as out_A, when one was passed: out_A is that
\* array, or its transposing view (line 97) when the array is in C-order.
ProvidedA == IF layout = "C" THEN Transpose(out_A[1]) ELSE out_A[1]

\* Lines 89-108: choose the arrays to work in.
InvProcess ==
    /\ ipc = "start"
    /\ IF layout = "N" /\ Dim(A) > 1
       THEN /\ ierr' = "ValueError"
            /\ ipc' = "done"
            /\ out_A' = Some(Transpose(A))
            /\ UNCHANGED out_b
       ELSE /\ out_A' = Some(IF layout = "F" THEN A ELSE Transpose(A))
            /\ out_b' = b
            /\ ipc' = "factor"
            /\ UNCHANGED ierr
    /\ UNCHANGED <<extvars, dgvars, olsevars, cvvars, A, b, argOutA, argOutB, cho_form, layout, info, iret,
                   calls, orig>>

\* Lines 111-115: the Cholesky factor, unless A is one already.
InvFactor ==
    /\ ipc = "factor"
    /\ LET r == IF cho_form THEN [a |-> out_A[1], info |-> 0] ELSE ChoFactor(out_A[1])
       IN /\ out_A' = Some(r.a)
          /\ A' = CallerA(r.a)
          /\ info' = r.info
          /\ ierr' = IF r.info # 0 THEN "LinAlgError" ELSE ierr
          /\ ipc' = IF r.info # 0 THEN "done" ELSE "solve"
    /\ UNCHANGED <<extvars, dgvars, olsevars, cvvars, b, argOutA, argOutB, cho_form, layout, out_b, iret,
                   calls, orig>>

\* Lines 116-117: out_b becomes the solution of (U^T U) x = out_b.
InvSolve ==
    /\ ipc = "solve"
    /\ IF out_b # None
       THEN /\ out_b' = Some(ChoSolve(out_A[1], out_b[1]))
            /\ b' = CallerB(ChoSolve(out_A[1], out_b[1]))
       ELSE UNCHANGED <<out_b, b>>
    /\ ipc' = "potri"
    /\ UNCHANGED <<extvars, dgvars, olsevars, cvvars, A, argOutA, argOutB, cho_form, layout, out_A, info,
                   iret, ierr, calls, orig>>

\* Lines 118-122: the inverse from the factor, upper triangle only.
InvPotri ==
    /\ ipc = "potri"
    /\ LET r == Potri(out_A[1])
       IN /\ out_A' = Some(r.a)
          /\ A' = CallerA(r.a)
          /\ info' = r.info
          /\ ierr' = IF r.info # 0 THEN "LinAlgError" ELSE ierr
          /\ ipc' = IF r.info # 0 THEN "done" ELSE "copy"
    /\ UNCHANGED <<extvars, dgvars, olsevars, cvvars, b, argOutA, argOutB, cho_form, layout, out_b, iret,
                   calls, orig>>

\* Mutant of InvReturn: line 124 is missing, the lower triangle is returned
\* as the LAPACK routines left it.
InvReturn_NoCopy ==
    /\ ipc = "copy"
    /\ iret' = Some(<<out_A[1], out_b>>)
    /\ ipc' = "done"
    /\ UNCHANGED <<extvars, dgvars, olsevars, cvvars, A, b, argOutA, argOutB, cho_form, layout, out_A,
                   out_b, info, ierr, calls, orig>>

\* Lines 123-125: mirror the upper triangle and return.
InvReturn ==
    /\ ipc = "copy"
    /\ out_A' = Some(CopyTriuToTril(out_A[1]))
    /\ A' = CallerA(CopyTriuToTril(out_A[1]))
    /\ iret' = Some(<<CopyTriuToTril(out_A[1]), out_b>>)
    /\ ipc' = "done"
    /\ UNCHANGED <<extvars, dgvars, olsevars, cvvars, b, argOutA, argOutB, cho_form, layout, out_b, info,
                   ierr, calls, orig>>

\* The function is applied to the pair it returned, with the default
\* arguments: invert_normal_params(*invert_normal_params(A, b, ...)).
InvAgain ==
    /\ ipc = "done"
    /\ ierr = ""
    /\ calls = 1
    /\ A' = iret[1][1]
    /\ b' = iret[1][2]
    /\ argOutA' = "None"
    /\ argOutB' = "None"
    /\ cho_form' = FALSE
    /\ layout' = "F"
    /\ out_A' = None
    /\ out_b' = None
    /\ info' = 0
    /\ iret' = None
    /\ calls' = 2
    /\ ipc' = "start"
    /\ UNCHANGED <<extvars, dgvars, olsevars, cvvars, ierr, orig>>

\* The explored arguments.  Factors are upper triangular with integer
\* entries; a covariance is U^T U for a factor U with a positive diagonal.
IntMatrix(M) == [i \in 1..Len(M) |-> [c \in 1..Len(M) |-> Rat(M[i][c], 1)]]
IntVector(v) == [i \in 1..Len(v) |-> Rat(v[i], 1)]

\* Second rows <<c, e>> of 2x2 factors with c*c + e*e a square, so that the
\* inverse of U^T U has a rational Cholesky factor as well.
SecondColumns == {<<0, 1>>, <<0, 2>>, <<3, 4>>, <<-3, 4>>, <<4, 3>>}

Factors ==
    {IntMatrix(<<(<<u>>)>>) : u \in 1..MaxDiag}
    \cup {IntMatrix(<<(<<u, ce[1]>>), (<<0, ce[2]>>)>>) :
             u \in 1..MaxDiag, ce \in SecondColumns}

SingularFactors == {IntMatrix(<<(<<0>>)>>), IntMatrix(<<(<<1, 1>>), (<<0, 0>>)>>)}

Gram(U) == [i \in 1..Dim(U) |-> [c \in 1..Dim(U) |->
               RSum([n \in 1..Dim(U) |-> RMul(U[n][i], U[n][c])])]]

PosDefMatrices == {Gram(U) : U \in Factors}

NotPosDefMatrices ==
    {IntMatrix(<<(<<-1>>)>>), IntMatrix(<<(<<0>>)>>),
     IntMatrix(<<(<<1, 2>>), (<<2, 1>>)>>),
     IntMatrix(<<(<<1, 1>>), (<<1, 1>>)>>),
     IntMatrix(<<(<<0, 0>>), (<<0, 1>>)>>)}

Vectors(d) == {IntVector(v) : v \in [1..d -> -1..MaxVec]}

InvInit ==
    /\ ipc = "start"
    /\ cho_form \in BOOLEAN
    /\ A \in IF cho_form THEN Factors \cup SingularFactors
             ELSE PosDefMatrices \cup NotPosDefMatrices
    /\ b \in {None} \cup {Some(v) : v \in Vectors(Dim(A))}
    /\ argOutA \in {"None", "in-place", "array"}
    /\ argOutB \in IF b = None THEN {"None"} ELSE {"None", "in-place", "array"}
    /\ layout \in IF argOutA = "None" \/ Dim(A) = 1 THEN {"F"} ELSE {"F", "C", "N"}
    /\ out_A = None
    /\ out_b = None
    /\ info = 0
    /\ iret = None
    /\ ierr = ""
    /\ calls = 1
    /\ orig = [A |-> A, b |-> b, cho_form |-> cho_form]

InvIdle ==
    /\ ipc = "idle"
    /\ cho_form = FALSE
    /\ A = <<>>
    /\ b = None
    /\ argOutA = "None"
    /\ argOutB = "None"
    /\ layout = "F"
    /\ out_A = None
    /\ out_b = None
    /\ info = 0
    /\ iret = None
    /\ ierr = ""
    /\ calls = 0
    /\ orig = [A |-> <<>>, b |-> None, cho_form |-> FALSE]

----------------------------------------------------------------------------
\* olse.

MaxN == 3

Trace(M) == RSum([i \in 1..Dim(M) |-> M[i][i]])

\* fro_norm_squared(M): the sum of the squares of the entries.
FroNormSquared(M) ==
    RSum([i \in 1..Dim(M) |-> RSum([c \in 1..Dim(M) |-> RMul(M[i][c], M[i][c])])])

\* The caller's S after a write of M to out.
OlseCallerS(M) ==
    IF olse_argOut = "in-place"
    THEN (IF olse_layout = "C" THEN Transpose(M) ELSE M)
    ELSE olse_S

\* Line 175: invert_normal_params(out, out_A='in-place') on an F-ordered
\* array, without b: factor, invert, mirror; ok is FALSE when LinAlgError is
\* raised, and a is what the array holds then.
InvertInPlace(M) ==
    LET f == ChoFactor(M)
        q == Potri(f.a)
    IN IF f.info # 0 THEN [a |-> f.a, ok |-> FALSE]
       ELSE IF q.info # 0 THEN [a |-> q.a, ok |-> FALSE]
       ELSE [a |-> CopyTriuToTril(q.a), ok |-> TRUE]

\* Mutant of NaiveShrink: beta is added to the diagonal, not beta/d.
NaiveShrink_BetaNotDivided(B, nn, t, t2, ff) ==
    LET dd == Rat(Dim(B), 1)
        alpha == RSub(One, RDiv(RAdd(dd, RDiv(t2, RSub(ff, RDiv(t2, dd)))), Rat(nn, 1)))
        beta == RMul(t, RSub(RSub(One, RDiv(dd, Rat(nn, 1))), alpha))
    IN [i \in 1..Dim(B) |-> [c \in 1..Dim(B) |->
          IF i = c THEN RAdd(RMul(B[i][c], alpha), beta)
          ELSE RMul(B[i][c], alpha)]]

\* Mutant of NaiveShrink: beta/d is added along out.flat[::d], the first
\* column, not along the diagonal.
NaiveShrink_FirstColumn(B, nn, t, t2, ff) ==
    LET dd == Rat(Dim(B), 1)
        alpha == RSub(One, RDiv(RAdd(dd, RDiv(t2, RSub(ff, RDiv(t2, dd)))), Rat(nn, 1)))
        beta == RMul(t, RSub(RSub(One, RDiv(dd, Rat(nn, 1))), alpha))
    IN [i \in 1..Dim(B) |-> [c \in 1..Dim(B) |->
          IF c = 1 THEN RAdd(RMul(B[i][c], alpha), RDiv(beta, dd))
          ELSE RMul(B[i][c], alpha)]]

\* Lines 179-184, the naive prior: B is out, nn is n, t, t2 and ff are tr,
\* tr2 and f2.
NaiveShrink(B, nn, t, t2, ff) ==
    LET dd == Rat(Dim(B), 1)
        alpha == RSub(One, RDiv(RAdd(dd, RDiv(t2, RSub(ff, RDiv(t2, dd)))), Rat(nn, 1)))
        beta == RMul(t, RSub(RSub(One, RDiv(dd, Rat(nn, 1))), alpha))
    IN [i \in 1..Dim(B) |-> [c \in 1..Dim(B) |->
          IF i = c THEN RAdd(RMul(B[i][c], alpha), RDiv(beta, dd))
          ELSE RMul(B[i][c], alpha)]]

\* Mutant of PriorShrink: trSP is the trace of out, not the sum of out*P.
PriorShrink_TraceForTrSP(B, Pm, nn, t, t2, ff) ==
    LET dd == Rat(Dim(B), 1)
        f2p == FroNormSquared(Transpose(Pm))
        trSP == t
        alpha == RSub(One, RDiv(RAdd(dd, RDiv(RMul(t2, f2p),
                                               RSub(RMul(ff, f2p), RMul(trSP, trSP)))),
                                Rat(nn, 1)))
        beta == RMul(RDiv(trSP, f2p), RSub(RSub(One, RDiv(dd, Rat(nn, 1))), alpha))
    IN [i \in 1..Dim(B) |-> [c \in 1..Dim(B) |->
          RAdd(RMul(B[i][c], alpha), RMul(beta, Pm[i][c]))]]

\* Lines 185-193, the provided prior Pm.
PriorShrink(B, Pm, nn, t, t2, ff) ==
    LET dd == Rat(Dim(B), 1)
        f2p == FroNormSquared(Transpose(Pm))
        temp == [i \in 1..Dim(B) |-> [c \in 1..Dim(B) |-> RMul(B[i][c], Pm[i][c])]]
        trSP == RSum([i \in 1..Dim(B) |-> RSum(temp[i])])
        alpha == RSub(One, RDiv(RAdd(dd, RDiv(RMul(t2, f2p),
                                               RSub(RMul(ff, f2p), RMul(trSP, trSP)))),
                                Rat(nn, 1)))
        beta == RMul(RDiv(trSP, f2p), RSub(RSub(One, RDiv(dd, Rat(nn, 1))), alpha))
    IN [i \in 1..Dim(B) |-> [c \in 1..Dim(B) |->
          RAdd(RMul(B[i][c], alpha), RMul(beta, Pm[i][c]))]]

\* Lines 162-172: choose the array to work in.
OlseProcess ==
    /\ olse_pc = "start"
    /\ IF olse_layout = "N"
       THEN /\ olse_err' = "ValueError"
            /\ olse_pc' = "done"
       ELSE /\ olse_pc' = "invert"
            /\ UNCHANGED olse_err
    /\ olse_out' = Some(IF olse_layout = "F" THEN olse_S ELSE Transpose(olse_S))
    /\ UNCHANGED <<extvars, dgvars, invvars, cvvars, olse_S, olse_n, olse_P, olse_argOut,
                   olse_layout, olse_tr, olse_tr2, olse_f2, olse_ret, olse_orig>>

\* Line 175: the inverse of S, in out.
OlseInvert ==
    /\ olse_pc = "invert"
    /\ LET r == InvertInPlace(olse_out[1])
       IN /\ olse_out' = Some(r.a)
          /\ olse_S' = OlseCallerS(r.a)
          /\ IF r.ok
             THEN olse_pc' = "stats" /\ UNCHANGED olse_err
             ELSE olse_pc' = "done" /\ olse_err' = "LinAlgError"
    /\ UNCHANGED <<extvars, dgvars, invvars, cvvars, olse_n, olse_P, olse_argOut, olse_layout,
                   olse_tr, olse_tr2, olse_f2, olse_ret, olse_orig>>

\* Lines 176-178: tr, tr2 and f2.
OlseStats ==
    /\ olse_pc = "stats"
    /\ olse_tr' = Trace(olse_out[1])
    /\ olse_tr2' = RMul(olse_tr', olse_tr')
    /\ olse_f2' = FroNormSquared(Transpose(olse_out[1]))
    /\ olse_pc' = "shrink"
    /\ UNCHANGED <<extvars, dgvars, invvars, cvvars, olse_S, olse_n, olse_P, olse_argOut,
                   olse_layout, olse_out, olse_ret, olse_err, olse_orig>>

\* Lines 179-193: the shrinkage, in out.
OlseShrink ==
    /\ olse_pc = "shrink"
    /\ LET M == IF olse_P = None
                THEN NaiveShrink(olse_out[1], olse_n, olse_tr, olse_tr2, olse_f2)
                ELSE PriorShrink(olse_out[1], olse_P[1], olse_n, olse_tr,
                                 olse_tr2, olse_f2)
       IN /\ olse_out' = Some(M)
          /\ olse_S' = OlseCallerS(M)
    /\ olse_pc' = "return"
    /\ UNCHANGED <<extvars, dgvars, invvars, cvvars, olse_n, olse_P, olse_argOut, olse_layout,
                   olse_tr, olse_tr2, olse_f2, olse_ret, olse_err, olse_orig>>

\* Line 194: return out.
OlseReturn ==
    /\ olse_pc = "return"
    /\ olse_ret' = olse_out
    /\ olse_pc' = "done"
    /\ UNCHANGED <<extvars, dgvars, invvars, cvvars, olse_S, olse_n, olse_P, olse_argOut,
                   olse_layout, olse_out, olse_tr, olse_tr2, olse_f2, olse_err,
                   olse_orig>>

\* The naive prior as a matrix, I/d.
NaivePrior(dm) ==
    [i \in 1..dm |-> [c \in 1..dm |-> IF i = c THEN Rat(1, dm) ELSE Zero]]

\* The priors explored for a d-dimensional S: none, I/d, and the positive
\* definite matrices of that dimension.
Priors(dm) ==
    {None, Some(NaivePrior(dm))}
    \cup {Some(M) : M \in {X \in PosDefMatrices : Dim(X) = dm}}

OlseInit ==
    /\ olse_pc = "start"
    /\ olse_S \in PosDefMatrices \cup NotPosDefMatrices
    /\ olse_n \in 1..MaxN
    /\ olse_P \in Priors(Dim(olse_S))
    /\ olse_argOut \in {"None", "in-place", "array"}
    /\ olse_layout \in IF olse_argOut = "None" \/ Dim(olse_S) = 1
                       THEN {"F"} ELSE {"F", "C", "N"}
    /\ olse_out = None
    /\ olse_tr = Zero
    /\ olse_tr2 = Zero
    /\ olse_f2 = Zero
    /\ olse_ret = None
    /\ olse_err = ""
    /\ olse_orig = [S |-> olse_S]

OlseIdle ==
    /\ olse_pc = "idle"
    /\ olse_S = <<>>
    /\ olse_n = 0
    /\ olse_P = None
    /\ olse_argOut = "None"
    /\ olse_layout = "F"
    /\ olse_out = None
    /\ olse_tr = Zero
    /\ olse_tr2 = Zero
    /\ olse_f2 = Zero
    /\ olse_ret = None
    /\ olse_err = ""
    /\ olse_orig = [S |-> <<>>]

----------------------------------------------------------------------------
\* _cv_estim and cv_moments.  samp, f and h are sequences of rows, one row
\* per sample.

MaxSamples == 3

RNeg(x) == <<-x[1], x[2]>>

\* An array and a two-dimensional array with their elements computed: every
\* numpy operation below allocates its result.
Array(v) == v \o <<>>
Array2(X) == [i \in 1..Len(X) |-> X[i] \o <<>>] \o <<>>

\* x < y; false when either is not finite.
RLess(x, y) == RSub(x, y)[1] < 0

\* np.clip(x, lo, hi)
Clip(x, lo, hi) ==
    IF IsNaN(x) THEN NaN
    ELSE IF RLess(x, lo) THEN lo
    ELSE IF RLess(hi, x) THEN hi
    ELSE x

\* The determinant, by expansion along the first row.
RECURSIVE Det(_)
Det(M) ==
    IF Len(M) = 1 THEN M[1][1]
    ELSE RSum([c \in 1..Len(M) |->
                 RMul(IF c % 2 = 1 THEN M[1][c] ELSE RNeg(M[1][c]),
                      Det(Array2([i \in 1..(Len(M) - 1) |-> [e \in 1..(Len(M) - 1) |->
                              M[i + 1][IF e < c THEN e ELSE e + 1]]])))])

\* linalg.solve(M, B): the solution X of M X = B, or LinAlgError (ok is
\* FALSE) when M is singular.
Solve(M, B) ==
    LET dt == Det(M)
    IN IF dt = Zero THEN [ok |-> FALSE, x |-> B]
       ELSE [ok |-> TRUE,
             x |-> Array2([r \in 1..Len(M) |-> [c \in 1..Len(B[1]) |->
                     RDiv(Det(Array2([i \in 1..Len(M) |-> [e \in 1..Len(M) |->
                                  IF e = r THEN B[i][c] ELSE M[i][e]]])),
                          dt)]])]

\* Python truth of an optional number: None and 0 are false.
Truthy(o) == o # None /\ o[1] # Zero

\* Mutant of Correction: the mean of hc is subtracted whatever a is.
Correction_IgnoresA(hm, a, multiple_cv) == hm

\* Lines 238-241: np.dot(hm, a), or np.multiply(hm, a).
Correction(hm, a, multiple_cv) ==
    IF multiple_cv
    THEN [c \in 1..Len(hm) |-> RSum([r \in 1..Len(hm) |-> RMul(hm[r], a[r][c])])]
    ELSE [c \in 1..Len(hm) |-> RMul(hm[c], a[c])]

\* Mutant of Regulate: the clip comes first, the multiplier after it.
Regulate_ClipFirst(x, opt) ==
    LET clipped == IF Truthy(opt.max_a)
                   THEN Clip(x, RNeg(opt.max_a[1]), opt.max_a[1]) ELSE x
    IN IF Truthy(opt.regulate_a) THEN RMul(clipped, opt.regulate_a[1]) ELSE clipped

\* Lines 226-230, for one element of a.
Regulate(x, opt) ==
    LET scaled == IF Truthy(opt.regulate_a) THEN RMul(x, opt.regulate_a[1]) ELSE x
    IN IF Truthy(opt.max_a)
       THEN Clip(scaled, RNeg(opt.max_a[1]), opt.max_a[1])
       ELSE scaled

\* Lines 197-242: _cv_estim(f, h, Eh, opt, cov_k, var_k, ddof_f, ddof_h=0).
\* ok is FALSE when linalg.solve raises LinAlgError.
CvEstim(f, h, Eh, opt, cov_k, var_k, ddof_f) ==
    LET nn == Len(f)
        dm == Len(f[1])
        mean_f == Array([c \in 1..dm |->
                     RDiv(RSum([i \in 1..nn |-> f[i][c]]), Rat(nn - ddof_f, 1))])
        fc == Array2([i \in 1..nn |-> [c \in 1..dm |-> RSub(f[i][c], mean_f[c])]])
        hc == Array2([i \in 1..nn |-> [c \in 1..dm |-> RSub(h[i][c], Eh[c])]])
        kc(x) == IF cov_k # 0 THEN RMul(x, Rat(cov_k, 1)) ELSE x
        kv(x) == IF var_k # 0 THEN RMul(x, Rat(var_k, 1)) ELSE x
        var_hM == Array2([r \in 1..dm |-> [c \in 1..dm |->
                     kv(RSum([i \in 1..nn |-> RMul(hc[i][c], hc[i][r])]))]])
        cov_fhM == Array2([r \in 1..dm |-> [c \in 1..dm |->
                      kc(RSum([i \in 1..nn |-> RMul(fc[i][c], hc[i][r])]))]])
        var_hV == Array([c \in 1..dm |->
                     kv(RSum([i \in 1..nn |-> RMul(hc[i][c], hc[i][c])]))])
        cov_fhV == Array([c \in 1..dm |->
                      kc(RSum([i \in 1..nn |-> RMul(fc[i][c], hc[i][c])]))])
        sol == Solve(var_hM, cov_fhM)
        a0 == IF opt.multiple_cv THEN sol.x
              ELSE Array([c \in 1..dm |-> RDiv(cov_fhV[c], var_hV[c])])
        a == IF opt.multiple_cv
             THEN Array2([r \in 1..dm |-> [c \in 1..dm |-> Regulate(a0[r][c], opt)]])
             ELSE Array([c \in 1..dm |-> Regulate(a0[c], opt)])
        hm == Array([c \in 1..dm |->
                 RDiv(RSum([i \in 1..nn |-> hc[i][c]]), Rat(nn, 1))])
        corr == Array(Correction(hm, a, opt.multiple_cv))
    IN IF opt.multiple_cv /\ ~sol.ok
       THEN [ok |-> FALSE, out |-> mean_f, a |-> <<>>]
       ELSE [ok |-> TRUE,
             out |-> Array([c \in 1..dm |-> RSub(mean_f[c], corr[c])]),
             a |-> a]

\* The positions (r, c), r <= c, of the upper triangle of a d x d matrix, row
\* by row.
RECURSIVE TriuFrom(_, _)
TriuFrom(dm, r) ==
    IF r > dm THEN <<>>
    ELSE [c \in 1..(dm - r + 1) |-> <<r, r + c - 1>>] \o TriuFrom(dm, r + 1)
Triu(dm) == TriuFrom(dm, 1)

\* auto_outer(X, F): row i of F is the upper triangle of the outer product
\* of row i of X with itself.
AutoOuter(X) ==
    LET tri == Triu(Len(X[1]))
    IN Array2([i \in 1..Len(X) |-> [e \in 1..Len(tri) |->
                 RMul(X[i][tri[e][1]], X[i][tri[e][2]])]])

\* ravel_triu(M, v): v is the upper triangle of M, row by row.
RavelTriu(M) ==
    LET tri == Triu(Dim(M))
    IN Array([e \in 1..Len(tri) |-> M[tri[e][1]][tri[e][2]]])

\* unravel_triu(v, M): M is the symmetric matrix with the upper triangle v.
\* Called with S_hat.T, so S_hat is the transpose of M.
UnravelTriu(v, dm) ==
    LET tri == Triu(dm)
    IN Array2([r \in 1..dm |-> [c \in 1..dm |->
          LET pos == IF r <= c THEN <<r, c>> ELSE <<c, r>>
          IN v[CHOOSE e \in 1..Len(v) : tri[e] = pos]]])

\* np.mean(X, axis=0)
ColMean(X) ==
    Array([c \in 1..Len(X[1]) |->
              RDiv(RSum([i \in 1..Len(X) |-> X[i][c]]), Rat(Len(X), 1))])

\* X - m, m broadcast over the rows.
Centered(X, m) ==
    Array2([i \in 1..Len(X) |-> [c \in 1..Len(m) |-> RSub(X[i][c], m[c])]])

\* Mutant of Treshold: the value passed is used as it is.
Treshold_AsPassed(t) == t

\* Lines 355-356: a treshold below 0.5 is replaced by 1 - treshold.
Treshold(t) == IF RLess(t, Rat(1, 2)) THEN RSub(One, t) ELSE t

\* Line 357: the fraction of the samples below m_tilde, per dimension.
ThRatios(X, m) ==
    [c \in 1..Len(m) |->
        Rat(Cardinality({i \in 1..Len(X) : RLess(X[i][c], m[c])}), Len(X))]

\* Mutant of Exceeded: only the upper limit is tested.
Exceeded_UpperOnly(thratios, t) ==
    \E c \in 1..Len(thratios) : RLess(t, thratios[c])

\* Line 358: np.any(thratios > t) or np.any(thratios < 1 - t)
Exceeded(thratios, t) ==
    \/ \E c \in 1..Len(thratios) : RLess(t, thratios[c])
    \/ \E c \in 1..Len(thratios) : RLess(thratios[c], RSub(One, t))

\* Line 351: h = samp*pr[:,np.newaxis]
Weighted(X, w) ==
    Array2([i \in 1..Len(X) |-> [c \in 1..Len(X[i]) |-> RMul(X[i][c], w[i])]])

\* Lines 359-362, the plain estimates: the mean, the samples with the mean
\* subtracted in place, and their scatter matrix divided by n-1.
PlainMean(X) == ColMean(X)
PlainCov(X) ==
    LET xc == Centered(X, ColMean(X))
    IN Array2([r \in 1..Len(X[1]) |-> [c \in 1..Len(X[1]) |->
          RDiv(RSum([i \in 1..Len(X) |-> RMul(xc[i][r], xc[i][c])]),
               Rat(Len(X) - 1, 1))]])

\* The a_S, a_m part of the returned tuple: present with ret_a only.
RetA(x) == IF cv_ret_a THEN Some(x) ELSE None

\* Lines 309-331: the moment parameters S_tilde, m_tilde of the control
\* variate, from invert_normal_params(cho_tilde, r_tilde, cho_form=True)
\* unless both were passed.  ldet_Q_tilde is not passed, so that
\* linalg.cho_factor(Q_tilde) is always called.
CvSetup ==
    /\ cv_pc = "start"
    /\ LET cho == ChoFactor(cv_Q_tilde)
       IN IF cho.info # 0
          THEN /\ cv_err' = "LinAlgError"
               /\ cv_pc' = "done"
               /\ UNCHANGED <<cv_S_tilde, cv_m_tilde>>
          ELSE /\ cv_pc' = "balance"
               /\ UNCHANGED cv_err
               /\ IF cv_argS_tilde = None \/ cv_argm_tilde = None
                  THEN /\ cv_S_tilde' = Some(CopyTriuToTril(Potri(cho.a).a))
                       /\ cv_m_tilde' = Some(ChoSolve(cho.a, cv_r_tilde))
                  ELSE /\ cv_S_tilde' = cv_argS_tilde
                       /\ cv_m_tilde' = cv_argm_tilde
    /\ UNCHANGED <<extvars, dgvars, invvars, olsevars, cv_samp, cv_pr, cv_Q_tilde,
                   cv_r_tilde, cv_argS_tilde, cv_argm_tilde, cv_opt, cv_ret_a,
                   cv_m_treshold, cv_a_m, cv_a_S, cv_S_hat, cv_m_hat, cv_ret,
                   cv_orig>>

\* Lines 353-367: the test of the fraction of samples below m_tilde, and
\* the plain sample estimates when it fails.
CvBalance ==
    /\ cv_pc = "balance"
    /\ IF /\ Truthy(cv_m_treshold)
          /\ Exceeded(ThRatios(cv_samp, cv_m_tilde[1]), Treshold(cv_m_treshold[1]))
       THEN /\ cv_m_hat' = Some(PlainMean(cv_samp))
            /\ cv_samp' = Centered(cv_samp, PlainMean(cv_samp))
            /\ cv_S_hat' = Some(PlainCov(cv_samp))
            /\ cv_ret' = Some([S_hat |-> cv_S_hat'[1], m_hat |-> cv_m_hat'[1],
                               used |-> FALSE, a_S |-> RetA(Zero),
                               a_m |-> RetA(Zero)])
            /\ cv_pc' = "done"
       ELSE /\ cv_pc' = "mean"
            /\ UNCHANGED <<cv_samp, cv_S_hat, cv_m_hat, cv_ret>>
    /\ UNCHANGED <<extvars, dgvars, invvars, olsevars, cv_pr, cv_Q_tilde, cv_r_tilde,
                   cv_argS_tilde, cv_argm_tilde, cv_opt, cv_ret_a, cv_m_treshold,
                   cv_S_tilde, cv_m_tilde, cv_a_m, cv_a_S, cv_err, cv_orig>>

\* Line 370: the mean, _cv_estim(f, h, m_tilde, opt, cov_k=n, var_k=n-1,
\* out=m_hat) with f = samp and h = samp*pr.
CvMean ==
    /\ cv_pc = "mean"
    /\ LET est == CvEstim(cv_samp, Weighted(cv_samp, cv_pr), cv_m_tilde[1],
                          cv_opt, Len(cv_samp), Len(cv_samp) - 1, 0)
       IN /\ cv_m_hat' = Some(est.out)
          /\ IF est.ok
             THEN /\ cv_a_m' = Some(est.a)
                  /\ cv_pc' = "cov"
                  /\ UNCHANGED cv_err
             ELSE /\ cv_err' = "LinAlgError"
                  /\ cv_pc' = "done"
                  /\ UNCHANGED cv_a_m
    /\ UNCHANGED <<extvars, dgvars, invvars, olsevars, cv_samp, cv_pr, cv_Q_tilde,
                   cv_r_tilde, cv_argS_tilde, cv_argm_tilde, cv_opt, cv_ret_a,
                   cv_m_treshold, cv_S_tilde, cv_m_tilde, cv_a_S, cv_S_hat,
                   cv_ret, cv_orig>>

\* Lines 375-404: the covariance, _cv_estim on the raveled outer products
\* of samp - m_hat (f) and of pr*(samp - m_tilde) (h), with
\* cov_k=n**2, var_k=(n-1)**2, ddof_f=1, unraveled into S_hat.
CvCov ==
    /\ cv_pc = "cov"
    /\ LET nn == Len(cv_samp)
           hh == Weighted(AutoOuter(Centered(cv_samp, cv_m_tilde[1])), cv_pr)
           Eh == RavelTriu(Transpose(cv_S_tilde[1]))
           ff == AutoOuter(Centered(cv_samp, cv_m_hat[1]))
           est == CvEstim(ff, hh, Eh, cv_opt, nn * nn, (nn - 1) * (nn - 1), 1)
       IN IF est.ok
          THEN /\ cv_a_S' = Some(est.a)
               /\ cv_S_hat' = Some(Transpose(UnravelTriu(est.out, Len(cv_samp[1]))))
               /\ cv_pc' = "return"
               /\ UNCHANGED cv_err
          ELSE /\ cv_err' = "LinAlgError"
               /\ cv_pc' = "done"
               /\ UNCHANGED <<cv_a_S, cv_S_hat>>
    /\ UNCHANGED <<extvars, dgvars, invvars, olsevars, cv_samp, cv_pr, cv_Q_tilde,
                   cv_r_tilde, cv_argS_tilde, cv_argm_tilde, cv_opt, cv_ret_a,
                   cv_m_treshold, cv_S_tilde, cv_m_tilde, cv_a_m, cv_m_hat,
                   cv_ret, cv_orig>>

\* Lines 408-411: return S_hat, m_hat, True and, with ret_a, a_S and a_m.
CvReturn ==
    /\ cv_pc = "return"
    /\ cv_ret' = Some([S_hat |-> cv_S_hat[1], m_hat |-> cv_m_hat[1],
                       used |-> TRUE, a_S |-> RetA(cv_a_S[1]),
                       a_m |-> RetA(cv_a_m[1])])
    /\ cv_pc' = "done"
    /\ UNCHANGED <<extvars, dgvars, invvars, olsevars, cv_samp, cv_pr, cv_Q_tilde,
                   cv_r_tilde, cv_argS_tilde, cv_argm_tilde, cv_opt, cv_ret_a,
                   cv_m_treshold, cv_S_tilde, cv_m_tilde, cv_a_m, cv_a_S,
                   cv_S_hat, cv_m_hat, cv_err, cv_orig>>

\* The sample points explored, per dimension.
Points(dm) ==
    IF dm = 1 THEN <<IntVector(<<0>>), IntVector(<<1>>), IntVector(<<2>>)>>
    ELSE <<IntVector(<<0, 0>>), IntVector(<<1, 0>>), IntVector(<<0, 1>>)>>

\* The batches of 2..MaxSamples of these points; the order of the samples
\* plays no part in cv_moments, so one order per batch is explored.
Batches(dm) ==
    UNION {{[i \in 1..nn |-> Points(dm)[ix[i]]] :
               ix \in {s \in [1..nn -> 1..Len(Points(dm))] :
                          \A i \in 1..(nn - 1) : s[i] <= s[i + 1]}} :
           nn \in 2..MaxSamples}

\* The probability ratios explored: all equal, or one sample with twice the
\* ratio of the others.
Ratios(nn) ==
    {[i \in 1..nn |-> One]}
    \cup {[i \in 1..nn |-> IF i = e THEN Rat(2, 1) ELSE One] : e \in 1..nn}

\* The control variate distributions explored: Q_tilde and r_tilde, with
\* S_tilde and m_tilde passed or not.
TildeParams(dm) ==
    IF dm = 1
    THEN {[Q |-> IntMatrix(<<(<<1>>)>>), r |-> IntVector(<<1>>), S |-> None, m |-> None],
          [Q |-> IntMatrix(<<(<<1>>)>>), r |-> <<Rat(2, 3)>>, S |-> None, m |-> None],
          [Q |-> IntMatrix(<<(<<4>>)>>), r |-> IntVector(<<2>>), S |-> None, m |-> None],
          [Q |-> IntMatrix(<<(<<4>>)>>), r |-> IntVector(<<6>>),
           S |-> Some(<<(<<Rat(1, 4)>>)>>), m |-> Some(<<Rat(3, 2)>>)],
          [Q |-> IntMatrix(<<(<<0>>)>>), r |-> IntVector(<<0>>), S |-> None, m |-> None]}
    ELSE {[Q |-> IntMatrix(<<(<<4, 0>>), (<<0, 4>>)>>), r |-> IntVector(<<2, 2>>),
           S |-> None, m |-> None],
          [Q |-> IntMatrix(<<(<<1, 1>>), (<<1, 2>>)>>), r |-> IntVector(<<1, 1>>),
           S |-> None, m |-> None],
          [Q |-> IntMatrix(<<(<<1, 0>>), (<<0, 1>>)>>), r |-> <<Rat(1, 2), Rat(1, 2)>>,
           S |-> Some(IntMatrix(<<(<<1, 0>>), (<<0, 1>>)>>)),
           m |-> Some(<<Rat(1, 2), Rat(1, 2)>>)]}

\* The options explored: opt and ret_a.
Options ==
    {<<[multiple_cv |-> TRUE, regulate_a |-> None, max_a |-> None], FALSE>>,
     <<[multiple_cv |-> FALSE, regulate_a |-> None, max_a |-> None], TRUE>>,
     <<[multiple_cv |-> FALSE, regulate_a |-> None, max_a |-> Some(One)], FALSE>>,
     <<[multiple_cv |-> TRUE, regulate_a |-> Some(Rat(2, 1)), max_a |-> Some(One)], TRUE>>,
     <<[multiple_cv |-> FALSE, regulate_a |-> None, max_a |-> Some(Zero)], TRUE>>}

Tresholds == {None, Some(Rat(9, 10)), Some(Rat(2, 3)), Some(Rat(3, 10))}

CvInit ==
    /\ cv_pc = "start"
    /\ \E dm \in 1..2 :
          /\ cv_samp \in Batches(dm)
          /\ \E tp \in TildeParams(dm) :
                /\ cv_Q_tilde = tp.Q
                /\ cv_r_tilde = tp.r
                /\ cv_argS_tilde = tp.S
                /\ cv_argm_tilde = tp.m
    /\ cv_pr \in Ratios(Len(cv_samp))
    /\ \E o \in Options : cv_opt = o[1] /\ cv_ret_a = o[2]
    /\ cv_m_treshold \in Tresholds
    /\ cv_S_tilde = None
    /\ cv_m_tilde = None
    /\ cv_a_m = None
    /\ cv_a_S = None
    /\ cv_S_hat = None
    /\ cv_m_hat = None
    /\ cv_ret = None
    /\ cv_err = ""
    /\ cv_orig = [samp |-> cv_samp, pr |-> cv_pr, Q_tilde |-> cv_Q_tilde,
                  r_tilde |-> cv_r_tilde, S_tilde |-> cv_argS_tilde,
                  m_tilde |-> cv_argm_tilde]

CvIdle ==
    /\ cv_pc = "idle"
    /\ cv_samp = <<>>
    /\ cv_pr = <<>>
    /\ cv_Q_tilde = <<>>
    /\ cv_r_tilde = <<>>
    /\ cv_argS_tilde = None
    /\ cv_argm_tilde = None
    /\ cv_opt = [multiple_cv |-> TRUE, regulate_a |-> None, max_a |-> None]
    /\ cv_ret_a = FALSE
    /\ cv_m_treshold = None
    /\ cv_S_tilde = None
    /\ cv_m_tilde = None
    /\ cv_a_m = None
    /\ cv_a_S = None
    /\ cv_S_hat = None
    /\ cv_m_hat = None
    /\ cv_ret = None
    /\ cv_err = ""
    /\ cv_orig = [samp |-> <<>>, pr |-> <<>>, Q_tilde |-> <<>>, r_tilde |-> <<>>,
                  S_tilde |-> None, m_tilde |-> None]

----------------------------------------------------------------------------
\* load_stan.  A file name is the sequence of its parts, "m.pkl" being
\* <<"m", ".pkl">>; a model is the version of the program it was compiled
\* from.

MaxVersion == 2
MaxCalls == 2

\* The state of the four earlier functions.
corevars == <<dgvars, invvars, olsevars, cvvars>>

\* Lines 659-663: one ending '.pkl' or '.stan' is removed.
StripEnding(name) ==
    IF name[Len(name)] = ".pkl" THEN SubSeq(name, 1, Len(name) - 1)
    ELSE IF name[Len(name)] = ".stan" THEN SubSeq(name, 1, Len(name) - 1)
    ELSE name

\* The file names passed, and the files load_stan then looks for.
FileNames == {<<"m">>, <<"m", ".pkl">>, <<"m", ".stan">>, <<"m", ".pkl", ".stan">>}
Stems == {StripEnding(f) : f \in FileNames}
Files == {Append(st, e) : st \in Stems, e \in {".pkl", ".stan"}}

\* os.path.isfile
IsFile(name) == ls_files[name] # None

\* Mutant of UsePickle: an existing pickle is used whatever overwrite is.
UsePickle_IgnoreOverwrite == IsFile(Append(ls_filename, ".pkl"))

\* Line 665: not overwrite and os.path.isfile(filename+'.pkl')
UsePickle == ~ls_overwrite /\ IsFile(Append(ls_filename, ".pkl"))

\* The call load_stan(name, ow), lines 659-663.
LoadStanCall ==
    /\ ls_pc = "idle"
    /\ ls_calls < MaxCalls
    /\ \E name \in FileNames, ow \in BOOLEAN :
          /\ ls_arg' = name
          /\ ls_overwrite' = ow
          /\ ls_filename' = StripEnding(name)
    /\ ls_pc' = "branch"
    /\ ls_sm' = None
    /\ ls_err' = ""
    /\ ls_compiled' = FALSE
    /\ ls_before' = ls_files
    /\ UNCHANGED <<corevars, cfvars, rdvars, spvars, ls_files, ls_calls>>

\* Lines 665-668: the precompiled model is loaded.
LoadStanLoad ==
    /\ ls_pc = "branch"
    /\ UsePickle
    /\ ls_sm' = ls_files[Append(ls_filename, ".pkl")]
    /\ ls_pc' = "done"
    /\ UNCHANGED <<corevars, cfvars, rdvars, spvars, ls_files, ls_arg, ls_overwrite, ls_filename, ls_err,
                   ls_compiled, ls_calls, ls_before>>

\* Lines 669-682: the model is compiled from the '.stan' file.
LoadStanCompile ==
    /\ ls_pc = "branch"
    /\ ~UsePickle
    /\ IsFile(Append(ls_filename, ".stan"))
    /\ ls_sm' = ls_files[Append(ls_filename, ".stan")]
    /\ ls_compiled' = TRUE
    /\ ls_pc' = "save"
    /\ UNCHANGED <<corevars, cfvars, rdvars, spvars, ls_files, ls_arg, ls_overwrite, ls_filename, ls_err,
                   ls_calls, ls_before>>

\* Lines 683-685: the compiled model is pickled into the '.pkl' file.
LoadStanSave ==
    /\ ls_pc = "save"
    /\ ls_files' = [ls_files EXCEPT ![Append(ls_filename, ".pkl")] = ls_sm]
    /\ ls_pc' = "done"
    /\ UNCHANGED <<corevars, cfvars, rdvars, spvars, ls_arg, ls_overwrite, ls_filename, ls_sm, ls_err,
                   ls_compiled, ls_calls, ls_before>>

\* Lines 686-688: neither branch applies.
LoadStanRaise ==
    /\ ls_pc = "branch"
    /\ ~UsePickle
    /\ ~IsFile(Append(ls_filename, ".stan"))
    /\ ls_err' = "IOError"
    /\ ls_pc' = "done"
    /\ UNCHANGED <<corevars, cfvars, rdvars, spvars, ls_files, ls_arg, ls_overwrite, ls_filename, ls_sm,
                   ls_compiled, ls_calls, ls_before>>

\* Line 689, or the exception leaving the function: the call is over.
LoadStanReturn ==
    /\ ls_pc = "done"
    /\ ls_pc' = "idle"
    /\ ls_calls' = ls_calls + 1
    /\ UNCHANGED <<corevars, cfvars, rdvars, spvars, ls_files, ls_arg, ls_overwrite, ls_filename, ls_sm,
                   ls_err, ls_compiled, ls_before>>

LsInit ==
    /\ ls_pc = "idle"
    /\ ls_files \in [Files -> {None} \cup {Some(v) : v \in 1..MaxVersion}]
    /\ ls_arg = <<>>
    /\ ls_overwrite = FALSE
    /\ ls_filename = <<>>
    /\ ls_sm = None
    /\ ls_err = ""
    /\ ls_compiled = FALSE
    /\ ls_calls = 0
    /\ ls_before = ls_files

LsIdle ==
    /\ ls_pc = "off"
    /\ ls_files = <<>>
    /\ ls_arg = <<>>
    /\ ls_overwrite = FALSE
    /\ ls_filename = <<>>
    /\ ls_sm = None
    /\ ls_err = ""
    /\ ls_compiled = FALSE
    /\ ls_calls = 0
    /\ ls_before = <<>>

----------------------------------------------------------------------------
\* copy_fit_samples.  A draw of the fit is named by its chain, the index
\* of the parameter element and its position in the chain, all 0-based; an
\* element of the output that was never written holds "empty".

MaxChains == 2
MaxIter == 2
MaxDim == 2

RECURSIVE Product(_)
\* itertools.product of a list of ranges, the last one running fastest.
Product(ranges) ==
    IF ranges = <<>> THEN << <<>> >>
    ELSE LET rest == Product(Tail(ranges))
             first == Head(ranges)
             n_rest == Len(rest)
         IN [q \in 1..(Len(first) * n_rest) |->
                <<first[((q - 1) \div n_rest) + 1]>> \o rest[((q - 1) % n_rest) + 1]]

\* reversed
Reversed(s) == [q \in 1..Len(s) |-> s[Len(s) + 1 - q]]

\* range(n)
Range(n) == [q \in 1..n |-> q - 1]

\* Lines 450-459: the indexes of the parameter elements in F-order.
IdxsF(dims) ==
    IF dims # <<>>
    THEN LET prod == Product(Reversed([a \in 1..Len(dims) |-> Range(dims[a])]))
         IN Array([q \in 1..Len(prod) |-> Reversed(prod[q]) \o <<>>])
    ELSE << <<>> >>

\* Lines 443-444.
NsampPerChain == cf_niter - cf_warmup
Nsamp == cf_nchains * NsampPerChain

\* (nsamp, *dims)
OutShape == <<Nsamp>> \o cf_dims

RECURSIVE Size(_)
\* ndarray.size
Size(shape) == IF shape = <<>> THEN 1 ELSE Head(shape) * Size(Tail(shape))

\* An array with at most one extent other than 1 (or with no element) is
\* contiguous in both orders.
BothOrders(shape) ==
    \/ Size(shape) = 0
    \/ Cardinality({a \in 1..Len(shape) : shape[a] # 1}) <= 1

\* ndarray.flags of an array laid out in memory order "F", "C" or in
\* neither ("N", a strided view).
FContiguous(arr) ==
    \/ arr.order = "F"
    \/ arr.order = "C" /\ BothOrders(arr.shape)
    \/ Size(arr.shape) <= 1
CContiguous(arr) ==
    \/ arr.order = "C"
    \/ arr.order = "F" /\ BothOrders(arr.shape)
    \/ Size(arr.shape) <= 1

\* ndarray.flags.farray: F-contiguous and not C-contiguous (the array is
\* aligned and writeable).
FArray(arr) == FContiguous(arr) /\ ~CContiguous(arr)

\* The draw at position t of chain ch for the element ix.
Draw(ch, ix, t) == <<ch, ix, t>>

\* Mutant of SrcDraws: the chain is read from its first draw.
SrcDraws_FromStart(ch, ix) ==
    [q \in 1..NsampPerChain |-> Draw(ch, ix, q - 1)]

\* Line 477: fit.sim['samples'][c]['chains'][param_name_d][warmup:]
SrcDraws(ch, ix) ==
    [q \in 1..NsampPerChain |-> Draw(ch, ix, cf_warmup + q - 1)]

\* np.empty((nsamp, *dims), order='F'), or the contents of a supplied array.
EmptyArray(shape) ==
    IF shape = <<>> THEN <<>>
    ELSE LET ixs == IdxsF(Tail(shape))
         IN Array([row \in 1..Head(shape) |->
                      [ix \in {ixs[q] : q \in 1..Len(ixs)} |-> "empty"]])

\* Lines 438-449: the sizes are read and out is created or validated.
CopyArgs ==
    /\ cf_pc = "start"
    /\ IF cf_argOut = None
       THEN /\ cf_out' = EmptyArray(OutShape)
            /\ cf_pc' = "loop"
            /\ UNCHANGED cf_err
       ELSE IF cf_argOut[1].shape # OutShape \/ ~FArray(cf_argOut[1])
       THEN /\ cf_err' = "ValueError"
            /\ cf_pc' = "done"
            /\ UNCHANGED cf_out
       ELSE /\ cf_out' = EmptyArray(OutShape)
            /\ cf_pc' = "loop"
            /\ UNCHANGED cf_err
    /\ UNCHANGED <<corevars, lsvars, rdvars, spvars, cf_nchains, cf_niter, cf_warmup, cf_dims,
                   cf_argOut, cf_e, cf_c, cf_copied, cf_ret>>

\* Lines 470-478: the draws of chain c for element e are copied.
CopyChain ==
    /\ cf_pc = "loop"
    /\ cf_e < Len(IdxsF(cf_dims))
    /\ cf_c < cf_nchains
    /\ LET idxs == IdxsF(cf_dims)[cf_e + 1]
           src == SrcDraws(cf_c, idxs)
           first == cf_c * NsampPerChain
           last == (cf_c + 1) * NsampPerChain
       IN cf_out' = Array([row \in 1..Len(cf_out) |->
                             IF first <= row - 1 /\ row - 1 < last
                             THEN [cf_out[row] EXCEPT ![idxs] = src[row - first]]
                             ELSE cf_out[row]])
    /\ cf_copied' = cf_copied + 1
    /\ cf_c' = cf_c + 1
    /\ UNCHANGED <<corevars, lsvars, rdvars, spvars, cf_pc, cf_nchains, cf_niter, cf_warmup,
                   cf_dims, cf_argOut, cf_e, cf_ret, cf_err>>

\* Line 461: the next parameter element.
CopyNextElement ==
    /\ cf_pc = "loop"
    /\ cf_e < Len(IdxsF(cf_dims))
    /\ cf_c = cf_nchains
    /\ cf_e' = cf_e + 1
    /\ cf_c' = 0
    /\ UNCHANGED <<corevars, lsvars, rdvars, spvars, cf_pc, cf_nchains, cf_niter, cf_warmup,
                   cf_dims, cf_argOut, cf_out, cf_copied, cf_ret, cf_err>>

\* Line 480.
CopyReturn ==
    /\ cf_pc = "loop"
    /\ cf_e = Len(IdxsF(cf_dims))
    /\ cf_ret' = Some(cf_out)
    /\ cf_pc' = "done"
    /\ UNCHANGED <<corevars, lsvars, rdvars, spvars, cf_nchains, cf_niter, cf_warmup, cf_dims,
                   cf_argOut, cf_out, cf_e, cf_c, cf_copied, cf_err>>

\* The dimensions of a parameter: a scalar, a vector or a matrix.
ParDims ==
    {<<>>} \cup {<<a>> : a \in 1..MaxDim}
           \cup {<<a, a2>> : a \in 1..MaxDim, a2 \in 1..MaxDim}

\* The arrays passed as out for a fit of the given sizes: of the right
\* shape, with one row too many, or with the samples on the last axis.
OutArrays(shape) ==
    {[shape |-> sh, order |-> o] :
        sh \in {shape, <<shape[1] + 1>> \o Tail(shape), Reversed(shape) \o <<>>},
        o \in {"F", "C", "N"}}

CfInit ==
    /\ cf_pc = "start"
    /\ cf_nchains \in 1..MaxChains
    /\ cf_niter \in 1..MaxIter
    /\ cf_warmup \in 0..cf_niter
    /\ cf_dims \in ParDims
    /\ cf_argOut \in {None} \cup {Some(o) : o \in OutArrays(OutShape)}
    /\ cf_out = <<>>
    /\ cf_e = 0
    /\ cf_c = 0
    /\ cf_copied = 0
    /\ cf_ret = None
    /\ cf_err = ""

CfIdle ==
    /\ cf_pc = "off"
    /\ cf_nchains = 0
    /\ cf_niter = 0
    /\ cf_warmup = 0
    /\ cf_dims = <<>>
    /\ cf_argOut = None
    /\ cf_out = <<>>
    /\ cf_e = 0
    /\ cf_c = 0
    /\ cf_copied = 0
    /\ cf_ret = None
    /\ cf_err = ""

----------------------------------------------------------------------------
\* redirect_stdout_stderr_deep.  The descriptor table maps each descriptor
\* to what it refers to: "closed", the terminal streams "stdin", "stdout",
\* "stderr", the caller's files "file_out" and "file_err", or "devnull".

MaxFd == 12
MaxUses == 2

\* sys.stdout.fileno() and sys.stderr.fileno(), lines 879-880.
StdoutFileno == 1
StderrFileno == 2

\* The descriptors of the two files the caller holds open.
FileOutFileno == 3
FileErrFileno == 4

Fds == 0..(MaxFd - 1)

\* The descriptors that are open.
OpenFds(tbl) == {fd \in Fds : tbl[fd] # "closed"}

\* os.open and os.dup return the lowest descriptor that is not open; with
\* every descriptor open they fail with OSError (EMFILE).
HasFree(tbl) == OpenFds(tbl) # Fds
LowestFree(tbl) ==
    CHOOSE fd \in Fds \ OpenFds(tbl) : \A o \in Fds \ OpenFds(tbl) : fd <= o

\* Mutant of Dup2: the descriptors are taken in the other order.
Dup2_Reversed(tbl, src, dst) == [tbl EXCEPT ![src] = tbl[dst]]

\* os.dup2(src, dst): dst now refers to what src refers to.
Dup2(tbl, src, dst) == [tbl EXCEPT ![dst] = tbl[src]]

\* The with-statement is entered with some choice of the two files;
\* lines 869-872: fd_out is the file's descriptor or a new one on os.devnull.
RedirectOpenOut ==
    /\ rd_pc = "idle"
    /\ rd_uses < MaxUses
    /\ rd_before' = rd_fds
    /\ \E fo \in {None, Some(FileOutFileno)}, fe \in {None, Some(FileErrFileno)} :
          /\ rd_file_out' = fo
          /\ rd_file_err' = fe
          /\ IF fo # None
             THEN /\ rd_fd_out' = fo
                  /\ rd_pc' = "open_err"
                  /\ UNCHANGED <<rd_fds, rd_err>>
             ELSE IF HasFree(rd_fds)
             THEN /\ rd_fd_out' = Some(LowestFree(rd_fds))
                  /\ rd_fds' = [rd_fds EXCEPT ![LowestFree(rd_fds)] = "devnull"]
                  /\ rd_pc' = "open_err"
                  /\ UNCHANGED rd_err
             ELSE /\ rd_err' = "OSError"
                  /\ rd_pc' = "left"
                  /\ UNCHANGED <<rd_fds, rd_fd_out>>
    /\ UNCHANGED <<corevars, lsvars, cfvars, spvars, rd_fd_err, rd_orig_stdout_dup,
                   rd_orig_stderr_dup, rd_uses>>

\* Lines 874-877: fd_err likewise.
RedirectOpenErr ==
    /\ rd_pc = "open_err"
    /\ IF rd_file_err # None
       THEN /\ rd_fd_err' = rd_file_err
            /\ rd_pc' = "dup_out"
            /\ UNCHANGED <<rd_fds, rd_err>>
       ELSE IF HasFree(rd_fds)
       THEN /\ rd_fd_err' = Some(LowestFree(rd_fds))
            /\ rd_fds' = [rd_fds EXCEPT ![LowestFree(rd_fds)] = "devnull"]
            /\ rd_pc' = "dup_out"
            /\ UNCHANGED rd_err
       ELSE /\ rd_err' = "OSError"
            /\ rd_pc' = "left"
            /\ UNCHANGED <<rd_fds, rd_fd_err>>
    /\ UNCHANGED <<corevars, lsvars, cfvars, spvars, rd_file_out, rd_file_err, rd_fd_out,
                   rd_orig_stdout_dup, rd_orig_stderr_dup, rd_uses, rd_before>>

\* Line 881: orig_stdout_dup = os.dup(orig_stdout)
RedirectDupOut ==
    /\ rd_pc = "dup_out"
    /\ IF HasFree(rd_fds)
       THEN /\ rd_orig_stdout_dup' = Some(LowestFree(rd_fds))
            /\ rd_fds' = [rd_fds EXCEPT ![LowestFree(rd_fds)] = rd_fds[StdoutFileno]]
            /\ rd_pc' = "dup_err"
            /\ UNCHANGED rd_err
       ELSE /\ rd_err' = "OSError"
            /\ rd_pc' = "left"
            /\ UNCHANGED <<rd_fds, rd_orig_stdout_dup>>
    /\ UNCHANGED <<corevars, lsvars, cfvars, spvars, rd_file_out, rd_file_err, rd_fd_out,
                   rd_fd_err, rd_orig_stderr_dup, rd_uses, rd_before>>

\* Line 882: orig_stderr_dup = os.dup(orig_stderr)
RedirectDupErr ==
    /\ rd_pc = "dup_err"
    /\ IF HasFree(rd_fds)
       THEN /\ rd_orig_stderr_dup' = Some(LowestFree(rd_fds))
            /\ rd_fds' = [rd_fds EXCEPT ![LowestFree(rd_fds)] = rd_fds[StderrFileno]]
            /\ rd_pc' = "set"
            /\ UNCHANGED rd_err
       ELSE /\ rd_err' = "OSError"
            /\ rd_pc' = "left"
            /\ UNCHANGED <<rd_fds, rd_orig_stderr_dup>>
    /\ UNCHANGED <<corevars, lsvars, cfvars, spvars, rd_file_out, rd_file_err, rd_fd_out,
                   rd_fd_err, rd_orig_stdout_dup, rd_uses, rd_before>>

\* Lines 884-887: both streams are redirected and the body starts.
RedirectSet ==
    /\ rd_pc = "set"
    /\ rd_fds' = Dup2(Dup2(rd_fds, rd_fd_out[1], StdoutFileno),
                      rd_fd_err[1], StderrFileno)
    /\ rd_pc' = "body"
    /\ UNCHANGED <<corevars, lsvars, cfvars, spvars, rd_file_out, rd_file_err, rd_fd_out,
                   rd_fd_err, rd_orig_stdout_dup, rd_orig_stderr_dup, rd_err,
                   rd_uses, rd_before>>

\* Lines 889-892: the body ends normally, the generator resumes after the
\* yield and assigns the saved descriptors back.
RedirectExit ==
    /\ rd_pc = "body"
    /\ rd_fds' = Dup2(Dup2(rd_fds, rd_orig_stdout_dup[1], StdoutFileno),
                      rd_orig_stderr_dup[1], StderrFileno)
    /\ rd_pc' = "left"
    /\ UNCHANGED <<corevars, lsvars, cfvars, spvars, rd_file_out, rd_file_err, rd_fd_out,
                   rd_fd_err, rd_orig_stdout_dup, rd_orig_stderr_dup, rd_err,
                   rd_uses, rd_before>>

\* Line 887: the body raises.  contextmanager throws the exception into the
\* generator at the yield, which is not inside a try statement, so the
\* generator ends there and the exception leaves the with-statement.
RedirectBodyRaises ==
    /\ rd_pc = "body"
    /\ rd_err' = "BodyError"
    /\ rd_pc' = "left"
    /\ UNCHANGED <<corevars, lsvars, cfvars, spvars, rd_fds, rd_file_out, rd_file_err,
                   rd_fd_out, rd_fd_err, rd_orig_stdout_dup, rd_orig_stderr_dup,
                   rd_uses, rd_before>>

\* The program goes on to its next use of the context manager.
RedirectAgain ==
    /\ rd_pc = "left"
    /\ rd_pc' = "idle"
    /\ rd_uses' = rd_uses + 1
    /\ rd_file_out' = None
    /\ rd_file_err' = None
    /\ rd_fd_out' = None
    /\ rd_fd_err' = None
    /\ rd_orig_stdout_dup' = None
    /\ rd_orig_stderr_dup' = None
    /\ rd_err' = ""
    /\ UNCHANGED <<corevars, lsvars, cfvars, spvars, rd_fds, rd_before>>

\* A process with its three standard streams and the caller's two files.
StartFds ==
    [fd \in Fds |->
        IF fd = 0 THEN "stdin"
        ELSE IF fd = StdoutFileno THEN "stdout"
        ELSE IF fd = StderrFileno THEN "stderr"
        ELSE IF fd = FileOutFileno THEN "file_out"
        ELSE IF fd = FileErrFileno THEN "file_err"
        ELSE "closed"]

RdInit ==
    /\ rd_pc = "idle"
    /\ rd_fds = StartFds
    /\ rd_file_out = None
    /\ rd_file_err = None
    /\ rd_fd_out = None
    /\ rd_fd_err = None
    /\ rd_orig_stdout_dup = None
    /\ rd_orig_stderr_dup = None
    /\ rd_err = ""
    /\ rd_uses = 0
    /\ rd_before = StartFds

RdIdle ==
    /\ rd_pc = "off"
    /\ rd_fds = <<>>
    /\ rd_file_out = None
    /\ rd_file_err = None
    /\ rd_fd_out = None
    /\ rd_fd_err = None
    /\ rd_orig_stdout_dup = None
    /\ rd_orig_stderr_dup = None
    /\ rd_err = ""
    /\ rd_uses = 0
    /\ rd_before = <<>>

----------------------------------------------------------------------------
\* stan_sample_subprocess and _stan_sample_subprocess_routine.  The parent
\* and the child are two processes.  The fit is named by its sampling time;
\* the samples of a parameter are named by the parameter and the fit.

MaxResult == 2
MaxSamplings == 2

\* The parameters of the model, and the values passed as pars: one name as
\* a string, or a sequence of names, one of which the model does not have.
ModelPars == {"phi", "eta"}
ParsArgs ==
    {[isstr |-> TRUE, name |-> "phi", names |-> <<>>],
     [isstr |-> FALSE, name |-> "", names |-> <<"phi">>],
     [isstr |-> FALSE, name |-> "", names |-> <<"phi", "eta">>],
     [isstr |-> FALSE, name |-> "", names |-> <<"phi", "psi">>]}

\* Lines 815-817: a single name becomes a sequence of one name.
EnsureSequence(pars) == IF pars.isstr THEN <<pars.name>> ELSE pars.names

\* Lines 760-766: the queue is created and the child process is started.
SubprocessStart ==
    /\ sp_pc = "idle"
    /\ sp_calls < MaxSamplings
    /\ \E found \in BOOLEAN : sp_model' = found
    /\ \E pars \in ParsArgs : sp_parsArg' = pars
    /\ sp_queue' = <<>>
    /\ sp_child' = "load"
    /\ sp_pars' = <<>>
    /\ sp_time' = 0
    /\ sp_samples' = <<>>
    /\ sp_result' = None
    /\ sp_exitcode' = None
    /\ sp_ret' = None
    /\ sp_pc' = "get"
    /\ UNCHANGED <<corevars, lsvars, cfvars, rdvars, sp_calls>>

\* Line 768: queue.get() blocks until the queue holds an item.
SubprocessGet ==
    /\ sp_pc = "get"
    /\ sp_queue # <<>>
    /\ sp_ret' = Some(Head(sp_queue))
    /\ sp_queue' = Tail(sp_queue)
    /\ sp_pc' = "join"
    /\ UNCHANGED <<corevars, lsvars, cfvars, rdvars, sp_child, sp_model, sp_parsArg,
                   sp_pars, sp_time, sp_samples, sp_result, sp_exitcode, sp_calls>>

\* Line 770: proc.join() blocks until the child has terminated.
SubprocessJoin ==
    /\ sp_pc = "join"
    /\ sp_child = "exited"
    /\ sp_pc' = "returned"
    /\ UNCHANGED <<corevars, lsvars, cfvars, rdvars, sp_child, sp_model, sp_parsArg,
                   sp_pars, sp_time, sp_samples, sp_result, sp_queue, sp_exitcode,
                   sp_ret, sp_calls>>

\* Line 771 has returned; the caller goes on to its next call.
SubprocessAgain ==
    /\ sp_pc = "returned"
    /\ sp_pc' = "idle"
    /\ sp_calls' = sp_calls + 1
    /\ UNCHANGED <<corevars, lsvars, cfvars, rdvars, sp_child, sp_model, sp_parsArg,
                   sp_pars, sp_time, sp_samples, sp_result, sp_queue, sp_exitcode,
                   sp_ret>>

\* Lines 815-820: pars is made a sequence and load_stan(model) returns the
\* model, or raises IOError when no file is found; an exception ends the
\* child process with exit code 1.
RoutineLoad ==
    /\ sp_child = "load"
    /\ sp_pars' = EnsureSequence(sp_parsArg)
    /\ IF sp_model
       THEN /\ sp_child' = "sample"
            /\ UNCHANGED sp_exitcode
       ELSE /\ sp_child' = "exited"
            /\ sp_exitcode' = Some(1)
    /\ UNCHANGED <<corevars, lsvars, cfvars, rdvars, sp_pc, sp_model, sp_parsArg,
                   sp_time, sp_samples, sp_result, sp_queue, sp_ret, sp_calls>>

\* Line 821: stan_sample_time delivers the fit and its sampling time, or
\* the sampler raises.
RoutineSample ==
    /\ sp_child = "sample"
    /\ \/ /\ \E t \in 1..MaxResult : sp_time' = t
          /\ sp_child' = "extract"
          /\ UNCHANGED sp_exitcode
       \/ /\ sp_child' = "exited"
          /\ sp_exitcode' = Some(1)
          /\ UNCHANGED sp_time
    /\ UNCHANGED <<corevars, lsvars, cfvars, rdvars, sp_pc, sp_model, sp_parsArg,
                   sp_pars, sp_samples, sp_result, sp_queue, sp_ret, sp_calls>>

\* Lines 823-827: the samples of the next parameter of pars are copied;
\* copy_fit_samples raises ValueError (line 438, list.index) for a name the
\* model does not have.
RoutineExtract ==
    /\ sp_child = "extract"
    /\ Len(sp_samples) < Len(sp_pars)
    /\ LET parameter == sp_pars[Len(sp_samples) + 1]
       IN IF parameter \in ModelPars
          THEN /\ sp_samples' = Append(sp_samples, <<parameter, sp_time>>)
               /\ UNCHANGED <<sp_child, sp_exitcode>>
          ELSE /\ sp_child' = "exited"
               /\ sp_exitcode' = Some(1)
               /\ UNCHANGED sp_samples
    /\ UNCHANGED <<corevars, lsvars, cfvars, rdvars, sp_pc, sp_model, sp_parsArg,
                   sp_pars, sp_time, sp_result, sp_queue, sp_ret, sp_calls>>

\* Lines 829-841: the last sample, the mean step size and the largest Rhat
\* are computed and packed with the samples and the sampling time.
RoutinePack ==
    /\ sp_child = "extract"
    /\ Len(sp_samples) = Len(sp_pars)
    /\ sp_result' = Some([samples |-> sp_samples, max_sampling_time |-> sp_time])
    /\ sp_child' = "put"
    /\ UNCHANGED <<corevars, lsvars, cfvars, rdvars, sp_pc, sp_model, sp_parsArg,
                   sp_pars, sp_time, sp_samples, sp_queue, sp_exitcode, sp_ret,
                   sp_calls>>

\* Line 842: the tuple is put on the queue.
RoutinePut ==
    /\ sp_child = "put"
    /\ sp_queue' = Append(sp_queue, sp_result[1])
    /\ sp_child' = "end"
    /\ UNCHANGED <<corevars, lsvars, cfvars, rdvars, sp_pc, sp_model, sp_parsArg,
                   sp_pars, sp_time, sp_samples, sp_result, sp_exitcode, sp_ret,
                   sp_calls>>

\* The routine has returned and the child process terminates.
RoutineExit ==
    /\ sp_child = "end"
    /\ sp_child' = "exited"
    /\ sp_exitcode' = Some(0)
    /\ UNCHANGED <<corevars, lsvars, cfvars, rdvars, sp_pc, sp_model, sp_parsArg,
                   sp_pars, sp_time, sp_samples, sp_result, sp_queue, sp_ret,
                   sp_calls>>

SpInit ==
    /\ sp_pc = "idle"
    /\ sp_child = "none"
    /\ sp_model = FALSE
    /\ sp_parsArg = [isstr |-> TRUE, name |-> "phi", names |-> <<>>]
    /\ sp_pars = <<>>
    /\ sp_time = 0
    /\ sp_samples = <<>>
    /\ sp_result = None
    /\ sp_queue = <<>>
    /\ sp_exitcode = None
    /\ sp_ret = None
    /\ sp_calls = 0

SpIdle ==
    /\ sp_pc = "off"
    /\ sp_child = "none"
    /\ sp_model = FALSE
    /\ sp_parsArg = <<>>
    /\ sp_pars = <<>>
    /\ sp_time = 0
    /\ sp_samples = <<>>
    /\ sp_result = None
    /\ sp_queue = <<>>
    /\ sp_exitcode = None
    /\ sp_ret = None
    /\ sp_calls = 0

\* The functions added after cv_moments are not running.
ExtIdle == LsIdle /\ CfIdle /\ RdIdle /\ SpIdle

----------------------------------------------------------------------------
\* One call of distribute_groups on arguments from the explored sets.

DGInit ==
    /\ pc = "check"
    /\ J \in 0..MaxJ
    /\ K \in 0..MaxK
    /\ NjArg \in NjArgs
    /\ Nj = <<>>
    /\ N = 0
    /\ j_lim = <<>>
    /\ Nk = <<>>
    /\ Njd = <<>>
    /\ Nj_k = <<>>
    /\ it = 0
    /\ j_ind_k = <<>>
    /\ k_lim = <<>>
    /\ k = 0
    /\ ji = 0
    /\ ppg = <<>>
    /\ Nj2 = <<>>
    /\ rem = <<>>
    /\ j = 0
    /\ kj = 0
    /\ ret = NoRet
    /\ err = ""

DGIdle ==
    /\ pc = "idle"
    /\ J = 0
    /\ K = 0
    /\ NjArg = [isint |-> TRUE, n |-> 0, a |-> <<>>]
    /\ Nj = <<>>
    /\ N = 0
    /\ j_lim = <<>>
    /\ Nk = <<>>
    /\ Njd = <<>>
    /\ Nj_k = <<>>
    /\ it = 0
    /\ j_ind_k = <<>>
    /\ k_lim = <<>>
    /\ k = 0
    /\ ji = 0
    /\ ppg = <<>>
    /\ Nj2 = <<>>
    /\ rem = <<>>
    /\ j = 0
    /\ kj = 0
    /\ ret = NoRet
    /\ err = ""

Init == DGInit /\ InvIdle /\ OlseIdle /\ CvIdle /\ ExtIdle

Next ==
    \/ CheckArgs
    \/ MergeStep
    \/ MergeDone
    \/ IndexStep
    \/ IndexNext
    \/ MergeReturn
    \/ SplitStep
    \/ SplitDone
    \/ FormStep
    \/ FormNext
    \/ SplitReturn

Spec == Init /\ [][Next]_vars

\* One call of invert_normal_params, and one more on what it returned.
InitInv == InvInit /\ DGIdle /\ OlseIdle /\ CvIdle /\ ExtIdle

NextInv ==
    \/ InvProcess
    \/ InvFactor
    \/ InvSolve
    \/ InvPotri
    \/ InvReturn
    \/ InvAgain

SpecInv == InitInv /\ [][NextInv]_vars

\* One call of olse.
InitOlse == OlseInit /\ DGIdle /\ InvIdle /\ CvIdle /\ ExtIdle

NextOlse ==
    \/ OlseProcess
    \/ OlseInvert
    \/ OlseStats
    \/ OlseShrink
    \/ OlseReturn

SpecOlse == InitOlse /\ [][NextOlse]_vars

\* One call of cv_moments.
InitCv == CvInit /\ DGIdle /\ InvIdle /\ OlseIdle /\ ExtIdle

NextCv ==
    \/ CvSetup
    \/ CvBalance
    \/ CvMean
    \/ CvCov
    \/ CvReturn

SpecCv == InitCv /\ [][NextCv]_vars

\* The four earlier functions are not running.
CoreIdle == DGIdle /\ InvIdle /\ OlseIdle /\ CvIdle

\* Calls of load_stan, one after the other, on any files.
InitLs == LsInit /\ CoreIdle /\ CfIdle /\ RdIdle /\ SpIdle

NextLs ==
    \/ LoadStanCall
    \/ LoadStanLoad
    \/ LoadStanCompile
    \/ LoadStanSave
    \/ LoadStanRaise
    \/ LoadStanReturn

SpecLs == InitLs /\ [][NextLs]_vars

\* One call of copy_fit_samples on a fit and an output argument.
InitCf == CfInit /\ CoreIdle /\ LsIdle /\ RdIdle /\ SpIdle

NextCf ==
    \/ CopyArgs
    \/ CopyChain
    \/ CopyNextElement
    \/ CopyReturn

SpecCf == InitCf /\ [][NextCf]_vars

\* Uses of redirect_stdout_stderr_deep, one after the other.
InitRd == RdInit /\ CoreIdle /\ LsIdle /\ CfIdle /\ SpIdle

NextRd ==
    \/ RedirectOpenOut
    \/ RedirectOpenErr
    \/ RedirectDupOut
    \/ RedirectDupErr
    \/ RedirectSet
    \/ RedirectExit
    \/ RedirectBodyRaises
    \/ RedirectAgain

SpecRd == InitRd /\ [][NextRd]_vars

\* Calls of stan_sample_subprocess, one after the other.
InitSp == SpInit /\ CoreIdle /\ LsIdle /\ CfIdle /\ RdIdle

\* The steps of the parent process and those of the child process.
ParentNext ==
    \/ SubprocessStart
    \/ SubprocessGet
    \/ SubprocessJoin
    \/ SubprocessAgain

ChildNext ==
    \/ RoutineLoad
    \/ RoutineSample
    \/ RoutineExtract
    \/ RoutinePack
    \/ RoutinePut
    \/ RoutineExit

NextSp == ParentNext \/ ChildNext

SpecSp == InitSp /\ [][NextSp]_vars

\* Both processes are scheduled: a process that can take a step eventually
\* takes one.
SpecSpFair == SpecSp /\ WF_vars(ParentNext) /\ WF_vars(ChildNext)

----------------------------------------------------------------------------
\* Properties of distribute_groups.  They are stated on the arguments of the
\* call and on what it returned, not on the operators of the model.

\* The group sizes the call was given.
GroupSizes == IF NjArg.isint THEN [n \in 1..J |-> NjArg.n] ELSE NjArg.a

TotalSamples == SeqSum(GroupSizes)

\* The precondition: J sizes, every one > 0, 2 <= K <= total samples.
ValidInput ==
    /\ Len(GroupSizes) = J
    /\ \A n \in 1..J : GroupSizes[n] > 0
    /\ 2 <= K
    /\ K <= TotalSamples

Returned == pc = "done" /\ err = ""

\* The 1-based positions of the entries of a that follow its first n entries
\* and belong to entry n + 1: the run n+1 of a partition with run lengths a.
Run(a, n) == {SeqSum(SubSeq(a, 1, n - 1)) + i : i \in 1..a[n]}

\* C1: for every valid input, in each branch (K < J, K == J, K > J) the
\* returned samplesPerSite has exactly K entries and they sum to the sum of
\* the group sizes.
C1_SamplesPerSiteTotal ==
    (pc = "done" /\ ValidInput) =>
        /\ err = ""
        /\ Len(ret.Nk) = K
        /\ SeqSum(ret.Nk) = TotalSamples

C1_Witness ==
    /\ Returned /\ ValidInput
    /\ J - K >= 2
    /\ Len(ret.Nk) = K
    /\ SeqSum(ret.Nk) = TotalSamples

\* C2: for every valid input with K < J, groupsPerSite has exactly K entries,
\* every entry is at least 1, and the entries sum to J.
C2_GroupsPerSite ==
    (pc = "done" /\ ValidInput /\ K < J) =>
        /\ err = ""
        /\ ret.second # None
        /\ Len(ret.second[1]) = K
        /\ \A n \in 1..K : ret.second[1][n] >= 1
        /\ SeqSum(ret.second[1]) = J

C2_Witness ==
    /\ Returned /\ ValidInput /\ K < J
    /\ \E n \in 1..K : ret.second[1][n] >= 3
    /\ SeqSum(ret.second[1]) = J

\* C3: for every valid input with J < K <= total samples, sitesPerGroup has J
\* entries that sum to K, and two sites split from the same group have
\* sample counts that differ by at most 1.
C3_SitesPerGroup ==
    (pc = "done" /\ ValidInput /\ K > J) =>
        /\ err = ""
        /\ ret.second # None
        /\ Len(ret.second[1]) = J
        /\ SeqSum(ret.second[1]) = K
        /\ Len(ret.Nk) = K
        /\ \A g \in 1..J : \A s1, s2 \in Run(ret.second[1], g) :
               Abs(ret.Nk[s1] - ret.Nk[s2]) <= 1

C3_Witness ==
    /\ Returned /\ ValidInput /\ K > J
    /\ \E g \in 1..J : \E s1, s2 \in Run(ret.second[1], g) :
           ret.Nk[s1] - ret.Nk[s2] = 1

\* C4: in the K < J branch exactly J-K merge steps are performed, and every
\* step merges the two adjacent sites whose combined sample count is the
\* minimum over all adjacent pairs of the current list, the lowest such pair
\* on ties.
IsMergeStep == pc = "merge" /\ it' = it + 1

\* The 1-based position of the first adjacent pair of s with the least sum.
LeastPair(s) ==
    CHOOSE n \in 1..(Len(s) - 1) :
        /\ \A p \in 1..(Len(s) - 1) : s[n] + s[n + 1] <= s[p] + s[p + 1]
        /\ \A p \in 1..(n - 1) : s[n] + s[n + 1] < s[p] + s[p + 1]

\* s with its entries n and n+1 replaced by their sum.
Merged(s, n) ==
    [p \in 1..(Len(s) - 1) |->
        IF p < n THEN s[p] ELSE IF p = n THEN s[n] + s[n + 1] ELSE s[p + 1]]

C4_MergeSmallestAdjacent ==
    [][/\ (pc = "check" /\ pc' = "merge") =>
              (it' = 0 /\ Nk' = GroupSizes /\ Nj_k' = [n \in 1..J |-> 1])
       /\ IsMergeStep =>
              /\ it < J - K
              /\ Nk' = Merged(Nk, LeastPair(Nk))
              /\ Nj_k' = Merged(Nj_k, LeastPair(Nk))
       /\ (pc = "merge" /\ ~IsMergeStep) => (Nk' = Nk /\ Nj_k' = Nj_k)
       /\ (pc = "merge" /\ pc' # "merge") => (it = J - K /\ Len(Nk) = K)
      ]_vars

C4_Witness ==
    /\ pc = "merge"
    /\ it = 2
    /\ \E n \in 1..Len(Nk) : Nk[n] >= 2 * MaxSize

\* C5: in the K < J branch the within-site group index has one entry per
\* sample, and the entry of a sample of original group g assigned to site k
\* is g minus the first original group of site k: 0-based and in
\* 0 .. groupsPerSite[k]-1.
C5_WithinSiteIndex ==
    (pc = "done" /\ ValidInput /\ K < J) =>
        /\ ret.j_ind_k # None
        /\ ret.second # None
        /\ Len(ret.j_ind_k[1]) = TotalSamples
        /\ \A site \in 1..K : \A g \in Run(ret.second[1], site) :
             \A sample \in Run(GroupSizes, g) :
               LET first == SeqSum(SubSeq(ret.second[1], 1, site - 1)) + 1
                   v == ret.j_ind_k[1][sample]
               IN /\ v = g - first
                  /\ 0 <= v
                  /\ v <= ret.second[1][site] - 1

C5_Witness ==
    /\ Returned /\ ValidInput /\ K < J
    /\ \E n \in 1..Len(ret.j_ind_k[1]) : ret.j_ind_k[1][n] = 2
    /\ ret.j_ind_k[1][Len(ret.j_ind_k[1])] = 0

\* C6: in the K > J branch every group starts with one part and exactly K-J
\* further parts are handed out one at a time, each to the group whose ratio
\* size/parts is largest at that moment (the lowest-indexed one on ties); the
\* ratio of the chosen group is recomputed from its original size and its new
\* part count before the next step.
IsSplitStep == pc = "split" /\ it' = it + 1

\* The 1-based group with the largest size/parts, the first one on ties.
LargestRatio(sizes, parts) ==
    CHOOSE g \in 1..Len(sizes) :
        /\ \A h \in 1..Len(sizes) : sizes[h] * parts[g] <= sizes[g] * parts[h]
        /\ \A h \in 1..(g - 1) : sizes[h] * parts[g] < sizes[g] * parts[h]

C6_SplitLargestRatio ==
    [][/\ (pc = "check" /\ pc' = "split") =>
              (it' = 0 /\ ppg' = [g \in 1..J |-> 1]
               /\ \A g \in 1..J : Nj2'[g][1] = GroupSizes[g] * Nj2'[g][2])
       /\ IsSplitStep =>
              LET c == LargestRatio(GroupSizes, ppg)
              IN /\ it < K - J
                 /\ ppg' = [ppg EXCEPT ![c] = ppg[c] + 1]
                 /\ Nj2'[c][1] * ppg'[c] = GroupSizes[c] * Nj2'[c][2]
                 /\ \A g \in 1..J : g # c => Nj2'[g] = Nj2[g]
       /\ (pc = "split" /\ ~IsSplitStep) => ppg' = ppg
       /\ (pc = "split" /\ pc' # "split") => (it = K - J /\ SeqSum(ppg) = K)
      ]_vars

C6_Witness ==
    /\ pc = "split"
    /\ it = K - J
    /\ \E g \in 1..J : ppg[g] >= 3
    /\ \E g \in 1..J : ppg[g] = 1

\* C7: in the K > J branch the sites of group j are consecutive in
\* samplesPerSite, in group order; the first (size mod parts) of them hold
\* floor(size/parts)+1 samples, the others floor(size/parts), and together
\* they hold size samples.
C7_EvenSplit ==
    (pc = "done" /\ ValidInput /\ K > J) =>
        /\ ret.second # None
        /\ Len(ret.Nk) = SeqSum(ret.second[1])
        /\ \A g \in 1..J :
             LET parts == ret.second[1][g]
                 off == SeqSum(SubSeq(ret.second[1], 1, g - 1))
                 size == GroupSizes[g]
             IN /\ \A i \in 1..parts :
                      ret.Nk[off + i] =
                          IF i <= size % parts THEN (size \div parts) + 1
                          ELSE size \div parts
                /\ SeqSum(SubSeq(ret.Nk, off + 1, off + parts)) = size

C7_Witness ==
    /\ Returned /\ ValidInput /\ K > J
    /\ \E g \in 2..J :
           /\ ret.second[1][g] >= 2
           /\ GroupSizes[g] % ret.second[1][g] # 0
           /\ ret.second[1][g - 1] >= 2

\* C8: when K == J (K >= 2, all sizes > 0) the assignment is the identity:
\* samplesPerSite is the group sizes in the original order, and neither a
\* groups-per-site/sites-per-group vector nor a within-site index is returned.
C8_Identity ==
    (pc = "done" /\ ValidInput /\ K = J) =>
        /\ err = ""
        /\ ret.Nk = GroupSizes
        /\ ret.second = None
        /\ ret.j_ind_k = None

C8_Witness ==
    /\ Returned /\ ValidInput /\ K = J
    /\ ret.Nk = GroupSizes
    /\ \E g1, g2 \in 1..J : GroupSizes[g1] < GroupSizes[g2]

\* C9: the call fails with a ValueError and returns nothing, for every J,
\* when K < 2 (K == J == 1 included), when K exceeds the total number of
\* samples, when some group size is <= 0, or when the size array does not
\* have J entries.
BadInput ==
    \/ K < 2
    \/ K > TotalSamples
    \/ \E n \in 1..Len(GroupSizes) : GroupSizes[n] <= 0
    \/ Len(GroupSizes) # J

C9_InvalidRaises ==
    /\ (pc # "check" /\ BadInput) => (pc = "done" /\ err # "" /\ ret = NoRet)
    /\ err # "" => ret = NoRet

C9_Witness ==
    /\ pc = "done"
    /\ K = 1 /\ J = 1
    /\ \A n \in 1..Len(GroupSizes) : GroupSizes[n] > 0
    /\ Len(GroupSizes) = J
    /\ err # ""

----------------------------------------------------------------------------
\* Properties of invert_normal_params.

MatMul(X, Y) == [i \in 1..Dim(X) |-> [c \in 1..Dim(X) |->
                   RSum([n \in 1..Dim(X) |-> RMul(X[i][n], Y[n][c])])]]
MatVec(X, v) == [i \in 1..Dim(X) |-> RSum([n \in 1..Dim(X) |-> RMul(X[i][n], v[n])])]
Identity(d) == [i \in 1..d |-> [c \in 1..d |-> IF i = c THEN One ELSE Zero]]

\* The first call was given a symmetric positive-definite S itself (not its
\* Cholesky factor) in an array the function accepts.
FirstCallOnPosDef ==
    /\ ~orig.cho_form
    /\ orig.A \in PosDefMatrices

\* C10: for every symmetric positive-definite S and vector m the call on
\* (S, m) returns (Q, r) with Q = S^-1 and r = Q m, and the call on (Q, r)
\* returns (S, m) again.  The arithmetic of the model is exact, so the round
\* trip is an equality.
C10_RoundTrip ==
    (ipc = "done" /\ FirstCallOnPosDef /\ ierr # "ValueError") =>
        /\ ierr = ""
        /\ iret # None
        /\ calls = 1 =>
              /\ MatMul(iret[1][1], orig.A) = Identity(Dim(orig.A))
              /\ orig.b # None =>
                    iret[1][2] = Some(MatVec(iret[1][1], orig.b[1]))
              /\ orig.b = None => iret[1][2] = None
        /\ calls = 2 =>
              /\ iret[1][1] = orig.A
              /\ iret[1][2] = orig.b

C10_Witness ==
    /\ ipc = "done"
    /\ calls = 2
    /\ FirstCallOnPosDef
    /\ Dim(orig.A) = 2
    /\ orig.A[1][2] # Zero
    /\ orig.b # None
    /\ orig.b[1][1] # Zero
    /\ orig.b[1][2] # orig.b[1][1]
    /\ iret = Some(<<orig.A, orig.b>>)

IsSymmetric(M) == \A i, c \in 1..Dim(M) : M[i][c] = M[c][i]

\* C11: every matrix invert_normal_params returns is exactly symmetric, for
\* every choice of the output buffer and for both values of cho_form.
C11_ReturnedSymmetric ==
    iret # None => IsSymmetric(iret[1][1])

C11_Witness ==
    /\ iret # None
    /\ calls = 1
    /\ orig.cho_form
    /\ argOutA = "array"
    /\ Dim(iret[1][1]) = 2
    /\ iret[1][1][1][2] # Zero
    /\ orig.A[2][1] = Zero

\* Positive definiteness of a symmetric 1x1 or 2x2 matrix, by its leading
\* minors.
Det2(M) == RSub(RMul(M[1][1], M[2][2]), RMul(M[1][2], M[2][1]))
PosDef(M) == RPos(M[1][1]) /\ (Dim(M) = 2 => RPos(Det2(M)))

\* The matrix the first call was asked to invert is not positive definite:
\* A itself, or U^T U for a factor U with a zero on its diagonal.
FirstCallNotPosDef ==
    IF orig.cho_form
    THEN \E i \in 1..Dim(orig.A) : orig.A[i][i] = Zero
    ELSE ~PosDef(orig.A)

\* C12: whenever A is not positive definite the call returns nothing and
\* raises LinAlgError, the one other outcome being the ValueError of line 99
\* for an out_A array that is neither F- nor C-contiguous, raised before A
\* is looked at; a nonzero status of either LAPACK routine raises
\* LinAlgError; no matrix is ever returned for an A that is not positive
\* definite.
C12_NotPosDefRaises ==
    /\ (ipc = "done" /\ calls = 1 /\ FirstCallNotPosDef) =>
           /\ iret = None
           /\ ierr \in {"LinAlgError", "ValueError"}
           /\ ierr = "ValueError" => (layout = "N" /\ info = 0)
    /\ (calls = 1 /\ info # 0) => (ipc = "done" /\ ierr = "LinAlgError" /\ iret = None)
    /\ (calls = 1 /\ iret # None) => ~FirstCallNotPosDef

C12_Witness ==
    /\ ipc = "done"
    /\ calls = 1
    /\ orig.cho_form
    /\ FirstCallNotPosDef
    /\ Dim(orig.A) = 2
    /\ info = 2
    /\ ierr = "LinAlgError"
    /\ iret = None

\* C13: with out_A/out_b None or an array the caller's A and b are never
\* written; with an array the result is in that array; with 'in-place' the
\* caller's A and b hold the result after the call; without b the returned
\* out_b is None.
C13_OutputBuffers ==
    calls = 1 =>
        /\ argOutA # "in-place" => A = orig.A
        /\ argOutB # "in-place" => b = orig.b
        /\ iret # None =>
              /\ argOutA = "in-place" => A = iret[1][1]
              /\ argOutA = "array" => ProvidedA = iret[1][1]
              /\ argOutB = "in-place" => b = iret[1][2]
              /\ argOutB # "None" => out_b = iret[1][2]
              /\ orig.b = None => iret[1][2] = None

C13_Witness ==
    /\ calls = 1
    /\ iret # None
    /\ argOutA = "None"
    /\ argOutB = "in-place"
    /\ Dim(A) = 2
    /\ A = orig.A
    /\ iret[1][1] # A
    /\ b = iret[1][2]
    /\ b # orig.b

\* The inverse of a 1x1 or 2x2 matrix, by cofactors.
Inverse(M) ==
    IF Dim(M) = 1 THEN <<(<<RDiv(One, M[1][1])>>)>>
    ELSE <<(<<RDiv(M[2][2], Det2(M)), RDiv(RSub(Zero, M[1][2]), Det2(M))>>),
           (<<RDiv(RSub(Zero, M[2][1]), Det2(M)), RDiv(M[1][1], Det2(M))>>)>>

\* alpha*B + (beta/d)*I for B the inverse of Sm, with
\* alpha = 1 - (d + tr^2/(f2 - tr^2/d))/n and beta = tr*(1 - d/n - alpha).
NaiveEstimate(Sm, nn) ==
    LET B == Inverse(Sm)
        dd == Rat(Dim(Sm), 1)
        t == RSum([i \in 1..Dim(B) |-> B[i][i]])
        ff == RSum([i \in 1..Dim(B) |->
                      RSum([c \in 1..Dim(B) |-> RMul(B[i][c], B[i][c])])])
        tt == RMul(t, t)
        alpha == RSub(One, RDiv(RAdd(dd, RDiv(tt, RSub(ff, RDiv(tt, dd)))), Rat(nn, 1)))
        beta == RMul(t, RSub(RSub(One, RDiv(dd, Rat(nn, 1))), alpha))
    IN [i \in 1..Dim(B) |-> [c \in 1..Dim(B) |->
          RAdd(RMul(alpha, B[i][c]), IF i = c THEN RDiv(beta, dd) ELSE Zero)]]

IsFinite(M) == \A i, c \in 1..Dim(M) : ~IsNaN(M[i][c])

\* C14: without a prior olse returns alpha*B + (beta/d)*I, B the inverse of
\* S, with alpha and beta as the naive-prior formulas give them; off the
\* diagonal the result is alpha*B.
C14_NaiveShrinkage ==
    (olse_ret # None /\ olse_P = None) =>
        olse_ret[1] = NaiveEstimate(olse_orig.S, olse_n)

C14_Witness ==
    /\ olse_ret # None
    /\ olse_P = None
    /\ olse_argOut = "in-place"
    /\ olse_layout = "C"
    /\ Dim(olse_ret[1]) = 2
    /\ IsFinite(olse_ret[1])
    /\ olse_ret[1][1][2] # Zero
    /\ olse_ret[1] # Inverse(olse_orig.S)

\* C15: with the prior I/d passed as P, olse returns the matrix it returns
\* for the same S and n without a prior.
C15_IdentityPriorIsNaive ==
    (olse_ret # None /\ olse_P = Some(NaivePrior(Dim(olse_orig.S)))) =>
        LET B == Inverse(olse_orig.S)
        IN olse_ret[1] = NaiveShrink(B, olse_n, Trace(B), RMul(Trace(B), Trace(B)),
                                     FroNormSquared(B))

C15_Witness ==
    /\ olse_ret # None
    /\ olse_P = Some(NaivePrior(2))
    /\ IsFinite(olse_ret[1])
    /\ olse_ret[1][1][2] # Zero
    /\ olse_ret[1][1][1] # olse_ret[1][2][2]

\* C16: the matrix olse returns is exactly symmetric, with and without a
\* prior, for every positive definite S, every n >= 1 and every symmetric P.
C16_OlseSymmetric ==
    olse_ret # None => IsSymmetric(olse_ret[1])

C16_Witness ==
    /\ olse_ret # None
    /\ olse_P # None
    /\ olse_P # Some(NaivePrior(2))
    /\ Dim(olse_ret[1]) = 2
    /\ olse_P[1][1][2] # Zero
    /\ IsFinite(olse_ret[1])
    /\ olse_ret[1][1][2] # Zero
    /\ olse_ret[1][1][2] = olse_ret[1][2][1]

\* The plain estimates of a batch X: the mean of the samples and the sum of
\* the outer products of their deviations from it, divided by n - 1.
SampleMean(X) ==
    [c \in 1..Len(X[1]) |-> RDiv(RSum([i \in 1..Len(X) |-> X[i][c]]), Rat(Len(X), 1))]
UnbiasedCov(X) ==
    [r \in 1..Len(X[1]) |-> [c \in 1..Len(X[1]) |->
        RDiv(RSum([i \in 1..Len(X) |->
                     RMul(RSub(X[i][r], SampleMean(X)[r]), RSub(X[i][c], SampleMean(X)[c]))]),
             Rat(Len(X) - 1, 1))]]

\* The fraction of the samples passed whose coordinate c is below that of
\* the reference mean.
FractionBelow(c) ==
    Rat(Cardinality({i \in 1..Len(cv_orig.samp) :
                        RLess(cv_orig.samp[i][c], cv_m_tilde[1][c])}),
        Len(cv_orig.samp))

\* Some fraction is above t or below 1 - t.
Unbalanced(t) ==
    \E c \in 1..Len(cv_m_tilde[1]) :
        RLess(t, FractionBelow(c)) \/ RLess(FractionBelow(c), RSub(One, t))

\* The call returned the plain estimates, marked as such.
PlainReturned ==
    /\ cv_ret # None
    /\ cv_ret[1].used = FALSE
    /\ cv_ret[1].m_hat = SampleMean(cv_orig.samp)
    /\ cv_ret[1].S_hat = UnbiasedCov(cv_orig.samp)

\* The call is over and the reference moments were available to it.
CvOver == cv_pc = "done" /\ cv_m_tilde # None

\* C17: with a threshold t in [0.5, 1), a call with some fraction above t
\* or below 1 - t returns False with the sample mean and the unbiased sample
\* covariance; a call with every fraction in [1 - t, t] takes the control
\* variate path: what it returns is marked True, and it returns unless the
\* regression raises LinAlgError for a singular system.
C17_BalanceFallback ==
    (CvOver /\ cv_m_treshold # None /\ ~RLess(cv_m_treshold[1], Rat(1, 2))) =>
        IF Unbalanced(cv_m_treshold[1])
        THEN PlainReturned /\ cv_err = ""
        ELSE /\ cv_ret # None => cv_ret[1].used = TRUE
             /\ cv_ret = None => cv_err = "LinAlgError"

C17_Witness ==
    /\ CvOver
    /\ cv_m_treshold = Some(Rat(9, 10))
    /\ Len(cv_m_tilde[1]) = 2
    /\ FractionBelow(1) = Rat(2, 3)
    /\ FractionBelow(2) = Zero
    /\ PlainReturned
    /\ cv_ret[1].S_hat[1][2] # Zero

EffectiveTreshold(t) == IF RLess(t, Rat(1, 2)) THEN RSub(One, t) ELSE t

C19_InputsUnchanged ==
    cv_pc # "idle" =>
        /\ cv_samp = cv_orig.samp
        /\ cv_pr = cv_orig.pr
        /\ cv_Q_tilde = cv_orig.Q_tilde
        /\ cv_r_tilde = cv_orig.r_tilde
        /\ cv_argS_tilde = cv_orig.S_tilde
        /\ cv_argm_tilde = cv_orig.m_tilde

\* Every element of a coefficient (a vector, or a matrix with multiple_cv) is
\* zero.
IsZeroCoef(co) ==
    IF cv_opt.multiple_cv
    THEN \A r, c \in 1..Len(co) : co[r][c] = Zero
    ELSE \A c \in 1..Len(co) : co[c] = Zero

\* mean(h - referenceMean) combined with the coefficient co of the mean.
MeanCorrection(co) ==
    LET X == cv_orig.samp
        hbar == [c \in 1..Len(X[1]) |->
                   RDiv(RSum([i \in 1..Len(X) |->
                                RSub(RMul(X[i][c], cv_orig.pr[i]), cv_m_tilde[1][c])]),
                        Rat(Len(X), 1))]
    IN [c \in 1..Len(X[1]) |->
          IF cv_opt.multiple_cv
          THEN RSum([r \in 1..Len(X[1]) |-> RMul(hbar[r], co[r][c])])
          ELSE RMul(hbar[c], co[c])]

\* C20: on the control variate path the mean returned is the sample mean
\* minus mean(h - m_tilde) combined with a_m; when a_m is zero it is the
\* sample mean, and when a_S is zero as well the covariance returned is the
\* unbiased sample covariance.
C20_ZeroCoefficient ==
    (CvOver /\ cv_ret # None /\ cv_ret[1].used) =>
        /\ cv_ret[1].m_hat =
              [c \in 1..Len(cv_m_tilde[1]) |->
                  RSub(SampleMean(cv_orig.samp)[c], MeanCorrection(cv_a_m[1])[c])]
        /\ IsZeroCoef(cv_a_m[1]) => cv_ret[1].m_hat = SampleMean(cv_orig.samp)
        /\ (IsZeroCoef(cv_a_m[1]) /\ IsZeroCoef(cv_a_S[1])) =>
              cv_ret[1].S_hat = UnbiasedCov(cv_orig.samp)

C20_Witness ==
    /\ CvOver
    /\ cv_ret # None
    /\ cv_ret[1].used
    /\ IsZeroCoef(cv_a_m[1])
    /\ IsZeroCoef(cv_a_S[1])
    /\ cv_ret[1].m_hat = SampleMean(cv_orig.samp)
    /\ cv_ret[1].S_hat = UnbiasedCov(cv_orig.samp)
    /\ cv_ret[1].S_hat[1][1] # Zero
    /\ cv_orig.pr[1] # cv_orig.pr[2]

\* The elements of a coefficient: of a matrix with multiple_cv, of a vector
\* without.
CoefElements(co) ==
    IF cv_opt.multiple_cv
    THEN {co[r][c] : r \in 1..Len(co), c \in 1..Len(co)}
    ELSE {co[c] : c \in 1..Len(co)}

\* Every finite element of co is within -m .. m.
CoefWithin(co, m) ==
    \A x \in CoefElements(co) : IsNaN(x) \/ (~RLess(m, x) /\ ~RLess(x, RNeg(m)))

\* C21, as claimed: whenever max_a is passed, every element of the
\* coefficients a_m and a_S that enter the estimates is at most max_a in
\* absolute value.
C21_CoefficientBounded ==
    cv_opt.max_a # None =>
        /\ cv_a_m # None => CoefWithin(cv_a_m[1], cv_opt.max_a[1])
        /\ cv_a_S # None => CoefWithin(cv_a_S[1], cv_opt.max_a[1])

\* The pickle was usable at the call: it existed and overwrite was False.
PickleUsable == ~ls_overwrite /\ ls_before[Append(ls_filename, ".pkl")] # None

\* C22: a call with an existing pickle and overwrite False returns the
\* pickled model, compiles nothing and writes nothing; any other call with
\* a '.stan' file returns the model compiled from it and leaves it in the
\* '.pkl' file; after a call that returned the '.pkl' file exists; IOError
\* is raised exactly when there is neither a usable pickle nor a '.stan'
\* file, and nothing is written then.
C22_LoadStanRule ==
    ls_pc = "done" =>
        LET pkl == Append(ls_filename, ".pkl")
            stan == Append(ls_filename, ".stan")
        IN /\ ls_filename \in Stems
           /\ PickleUsable =>
                 /\ ls_err = ""
                 /\ ls_sm = ls_before[pkl]
                 /\ ~ls_compiled
                 /\ ls_files = ls_before
           /\ (~PickleUsable /\ ls_before[stan] # None) =>
                 /\ ls_err = ""
                 /\ ls_compiled
                 /\ ls_sm = ls_before[stan]
                 /\ ls_files = [ls_before EXCEPT ![pkl] = ls_before[stan]]
           /\ ls_err = "" => (ls_sm # None /\ ls_files[pkl] # None)
           /\ ls_err \in {"", "IOError"}
           /\ ls_err = "IOError" <=> (~PickleUsable /\ ls_before[stan] = None)
           /\ ls_err = "IOError" => (ls_files = ls_before /\ ls_sm = None)

C22_Witness ==
    /\ ls_pc = "done"
    /\ ls_calls = 1
    /\ ls_arg = <<"m", ".stan">>
    /\ ls_overwrite
    /\ ls_compiled
    /\ ls_before[<<"m", ".pkl">>] = Some(1)
    /\ ls_files[<<"m", ".pkl">>] = Some(2)
    /\ ls_sm = Some(2)

\* The elements of the parameter, and the post-warm-up draws of the fit.
ParElements == {IdxsF(cf_dims)[q] : q \in 1..Len(IdxsF(cf_dims))}
KeptDraws ==
    {Draw(ch, ix, t) : ch \in 0..(cf_nchains - 1), ix \in ParElements,
                       t \in cf_warmup..(cf_niter - 1)}

\* C24: the array returned has nchains*(niter-warmup) rows; row
\* c*(niter-warmup)+i holds draw warmup+i of chain c for every parameter
\* element, so no warm-up draw appears and every kept draw appears exactly
\* once; an out of the wrong shape or not F-contiguous raises ValueError with
\* no copy made.
C24_ChainsInOrder ==
    /\ (cf_pc = "done" /\ cf_err = "") =>
          LET res == cf_ret[1]
              per == cf_niter - cf_warmup
          IN /\ Len(res) = cf_nchains * per
             /\ \A row \in 1..Len(res) : DOMAIN res[row] = ParElements
             /\ \A ch \in 0..(cf_nchains - 1), i \in 0..(per - 1), ix \in ParElements :
                   res[ch * per + i + 1][ix] = Draw(ch, ix, cf_warmup + i)
             /\ \A row \in 1..Len(res), ix \in ParElements :
                   /\ res[row][ix] # "empty"
                   /\ res[row][ix][3] >= cf_warmup
             /\ \A dr \in KeptDraws :
                   Cardinality({pos \in (1..Len(res)) \X ParElements :
                                   res[pos[1]][pos[2]] = dr}) = 1
    /\ (cf_pc = "done" /\ cf_argOut # None
          /\ (cf_argOut[1].shape # <<cf_nchains * (cf_niter - cf_warmup)>> \o cf_dims
                \/ ~FContiguous(cf_argOut[1]))) =>
          (cf_err = "ValueError" /\ cf_copied = 0 /\ cf_ret = None)
    /\ cf_err # "" => (cf_err = "ValueError" /\ cf_copied = 0)

C24_Witness ==
    /\ cf_pc = "done"
    /\ cf_err = ""
    /\ cf_nchains = 2
    /\ cf_niter = 2
    /\ cf_warmup = 1
    /\ cf_dims = <<2, 2>>
    /\ cf_argOut # None
    /\ cf_ret[1][2][<<1, 0>>] = Draw(1, <<1, 0>>, 1)

\* The sum of the sizes of the original groups first..last (0-based).
SizeOfGroups(first, last) ==
    SeqSum([g \in 1..(last - first + 1) |-> GroupSizes[first + g]])

\* The running sum of a list, starting with 0: entry n + 1 is the sum of
\* the first n entries.
RunningSum(a) == [n \in 1..(Len(a) + 1) |-> SeqSum(SubSeq(a, 1, n - 1))]

\* Every site of the lists nk, njk is the run of consecutive original groups
\* that the running sum of njk gives it.
SitesAreRuns(nk, njk) ==
    /\ Len(nk) = Len(njk)
    /\ RunningSum(njk)[Len(njk) + 1] = J
    /\ \A site \in 1..Len(nk) :
          /\ njk[site] >= 1
          /\ nk[site] = SizeOfGroups(RunningSum(njk)[site],
                                     RunningSum(njk)[site + 1] - 1)

\* C25: in the K < J branch every site is a run of consecutive original
\* groups, site k being the groups k_lim[k] .. k_lim[k+1]-1 for k_lim the
\* running sum of groupsPerSite, with samplesPerSite[k] the sum of their
\* sizes; and after every merge step every entry of the list of adjacent
\* pair sums is the sum of the two neighbouring current site sizes.
C25_SitesAreConsecutiveGroups ==
    (ValidInput /\ K < J) =>
        /\ pc \in {"merge", "index"} =>
              /\ SitesAreRuns(Nk, Nj_k)
              /\ Len(Njd) = Len(Nk) - 1
              /\ \A p \in 1..Len(Njd) : Njd[p] = Nk[p] + Nk[p + 1]
        /\ pc = "index" => k_lim = RunningSum(Nj_k)
        /\ pc = "done" =>
              /\ ret.second # None
              /\ Len(ret.Nk) = K
              /\ SitesAreRuns(ret.Nk, ret.second[1])

C25_Witness ==
    /\ ValidInput /\ K < J
    /\ pc = "merge"
    /\ it = 2
    /\ Len(Nk) >= 2
    /\ \E site \in 1..Len(Nk) :
          /\ Nj_k[site] = 3
          /\ site > 1
          /\ \E g \in 1..J : GroupSizes[g] # GroupSizes[1]

\* C26: for every valid input every site receives at least one sample, in
\* the branches K < J, K == J and K > J alike; in the K > J branch no group
\* is given more parts than it has samples, neither while the parts are
\* handed out nor in the value returned.
C26_NoEmptySite ==
    ValidInput =>
        /\ Returned =>
              /\ Len(ret.Nk) = K
              /\ \A site \in 1..K : ret.Nk[site] >= 1
        /\ (Returned /\ K > J) =>
              /\ ret.second # None
              /\ \A g \in 1..J : ret.second[1][g] <= GroupSizes[g]
        /\ (pc \in {"split", "form"} /\ K > J) =>
              \A g \in 1..J : ppg[g] <= GroupSizes[g]

C26_Witness ==
    /\ Returned /\ ValidInput /\ K > J
    /\ \E g \in 1..J : ret.second[1][g] = GroupSizes[g] /\ GroupSizes[g] >= 2
    /\ \E g \in 1..J : ret.second[1][g] < GroupSizes[g]

\* The largest site of a group of the given size split evenly into so many
\* parts: the ceiling of size/parts.
LargestPart(size, parts) == (size + parts - 1) \div parts

\* The largest per-site sample count when group g is split into parts[g].
LargestSite(parts) ==
    CHOOSE m \in {LargestPart(GroupSizes[g], parts[g]) : g \in 1..J} :
        \A g \in 1..J : LargestPart(GroupSizes[g], parts[g]) <= m

\* Every way of giving K parts to the J groups, at least one to each.
Assignments ==
    {parts \in [1..J -> 1..(K - J + 1)] : SeqSum(parts) = K}

\* C27: in the K > J branch no assignment of K parts to the J groups with
\* at least one part per group, each group split evenly, has a smaller
\* largest per-site sample count than the one returned.
C27_GreedyIsBalanced ==
    (Returned /\ ValidInput /\ K > J) =>
        /\ ret.second[1] \in Assignments
        /\ \A site \in 1..K : ret.Nk[site] <= LargestSite(ret.second[1])
        /\ \E site \in 1..K : ret.Nk[site] = LargestSite(ret.second[1])
        /\ \A parts \in Assignments :
              LargestSite(ret.second[1]) <= LargestSite(parts)

C27_Witness ==
    /\ Returned /\ ValidInput /\ K > J
    /\ J >= 3
    /\ \E g \in 1..J : ret.second[1][g] = 1
    /\ \E g \in 1..J : ret.second[1][g] >= 3
    /\ \E parts \in Assignments : LargestSite(ret.second[1]) < LargestSite(parts)

\* What a stream is to refer to inside the with-block: the given file, or
\* the null device when none is given.
RedirectTarget(file, name) == IF file # None THEN name ELSE "devnull"

\* Both streams refer to what they referred to when the with-statement was
\* entered.
StreamsAsBefore ==
    /\ rd_fds[StdoutFileno] = rd_before[StdoutFileno]
    /\ rd_fds[StderrFileno] = rd_before[StderrFileno]

\* C23: while the with-block runs, the descriptors of stdout and stderr
\* refer to the given files, or to the null device for a stream whose file
\* is not given; after the with-block has completed normally both refer
\* again to what they referred to before.
C23_RedirectedThenRestored ==
    /\ rd_pc = "body" =>
          /\ rd_fds[StdoutFileno] = RedirectTarget(rd_file_out, "file_out")
          /\ rd_fds[StderrFileno] = RedirectTarget(rd_file_err, "file_err")
    /\ (rd_pc = "left" /\ rd_err = "") => StreamsAsBefore

C23_Witness ==
    /\ rd_pc = "left"
    /\ rd_err = ""
    /\ rd_uses = 0
    /\ rd_file_out # None
    /\ rd_file_err = None
    /\ rd_fds[StdoutFileno] = "stdout"
    /\ rd_fds[StderrFileno] = "stderr"
    /\ rd_fds[rd_fd_err[1]] = "devnull"

\* C28, as claimed: when the body of the with-block raises, stdout and
\* stderr refer again to what they referred to before once the with-statement
\* has been left.
C28_RestoredAfterRaise ==
    (rd_pc = "left" /\ rd_err = "BodyError") => StreamsAsBefore

\* C29, as claimed: once the with-block has been left, the descriptors that
\* are open are those that were open before the first use.
C29_NoDescriptorLeak ==
    rd_pc \in {"left", "idle"} => OpenFds(rd_fds) = OpenFds(StartFds)

\* C30, as claimed: a call that waits for the result eventually comes back,
\* by returning or by raising, whatever the child process does.
C30_ParentComesBack ==
    (sp_pc = "get") ~> (sp_pc \in {"returned", "raised"})

\* The part of C30 that holds: what the parent returns is the one tuple
\* the child put on the queue, with the samples of every parameter of pars,
\* taken from the queue before the child was joined.
SubprocessReturnsResult ==
    /\ Len(sp_queue) <= 1
    /\ sp_pc \in {"join", "returned"} =>
          /\ sp_ret = sp_result
          /\ sp_ret # None
          /\ sp_queue = <<>>
          /\ [q \in 1..Len(sp_ret[1].samples) |-> sp_ret[1].samples[q][1]]
                = EnsureSequence(sp_parsArg)
    /\ sp_pc = "returned" => (sp_child = "exited" /\ sp_exitcode = Some(0))

====
